---- MODULE Spec2Model ----
(***************************************************************************)
(* uncalled-for: dependency resolution for asynchronous callables.         *)
(*                                                                         *)
(* The model follows src/src/uncalled_for/_resolution.py                   *)
(* (resolved_dependencies), _functional.py (_Depends) and _shared.py       *)
(* (_Shared, SharedContext).  Every resolution is a task that advances in  *)
(* steps; a step ends where the code awaits, so the steps of different     *)
(* tasks interleave the way coroutines do on one event loop.               *)
(***************************************************************************)
EXTENDS Integers, Sequences, FiniteSets, TLC

\* ------------------------------------------------------------- bounds
MaxResolutions == 2
MaxOverrides == 1

\* Every resolution is a task of its own; any number of them may be in
\* progress at a time.
Tasks == 1..MaxResolutions

\* ------------------------------------------------------------- values
\* Object identity: the n-th object of its kind made in a scope.  The scope is
\* a resolution scope (named by its task) or the shared scope (SharedScope).
\* NoId is the identity of what exists before any resolution (a declared
\* descriptor, a caller's value).
Id(scope, n) == [scope |-> scope, n |-> n]
SharedScope == 0
NoId == Id(0, 0)

\* A resolved value is identified by the producer and the invocation that made
\* it (object identity, not value equality).
Value(src, id) == [kind |-> "value", src |-> src, id |-> id, err |-> ""]
ProvidedValue(name) == [kind |-> "provided", src |-> name, id |-> NoId, err |-> ""]
None == [kind |-> "none", src |-> "", id |-> NoId, err |-> ""]
Error(by, id) == [by |-> by, id |-> id]
NoError == Error("", NoId)
LookupError == Error("LookupError", NoId)
BodyError == Error("body", NoId)
\* asyncio.CancelledError: a BaseException, not an Exception.
CancelledError == Error("cancel", NoId)
RecursionError == Error("recursion", NoId)
FailedDependency(parameter, error) ==
    [kind |-> "failed", src |-> parameter, id |-> error.id, err |-> error.by]

EmptyDict == [x \in {} |-> None]
Put(dict, key, value) ==
    [x \in (DOMAIN dict) \cup {key} |-> IF x = key THEN value ELSE dict[x]]

\* ------------------------------------------------------------- descriptors
Depends(factory) == [kind |-> "depends", name |-> factory, inst |-> NoId]
Shared(factory) == [kind |-> "shared", name |-> factory, inst |-> NoId]
Custom(class) == [kind |-> "custom", name |-> class, inst |-> NoId]
Param(name, dependency) == [param |-> name, dep |-> dependency]
Annotated(name, dependencies) == [param |-> name, deps |-> dependencies]

\* ------------------------------------------------------------- producers
Producers ==
    {"base", "derived", "boom", "resource", "resource_a", "resource_b", "pool",
     "fragile", "loop", "ping", "pong", "bad"}

\* What a producer returns: a plain value, an awaitable, a sync or an async
\* context manager.
FactoryShape(p) ==
    CASE p = "base" -> "cm"
      [] p \in {"resource", "resource_a", "resource_b", "pool", "fragile"} -> "acm"
      [] p \in {"derived", "boom"} -> "await"
      [] OTHER -> "plain"

FactoryRaises(p) == p \in {"boom", "bad"}

\* What the producer returns, up to equality (==): these four return equal
\* values, every other producer a value equal to no other's.
Output(p) ==
    IF p \in {"base", "derived", "resource_a", "pool"} THEN "ready" ELSE p

\* The context manager raises on its way out, after its `yield`.
ReleaseRaises(p) == p = "fragile"

\* get_dependency_parameters(factory): the producer's own dependencies.
FactoryParameters(p) ==
    CASE p = "derived" -> <<Param("b", Depends("base"))>>
      [] p = "boom" -> <<Param("r", Depends("resource"))>>
      [] p = "pool" ->
            <<Param("cfg", Shared("resource_a")), Param("host", Depends("base"))>>
      [] p = "loop" -> <<Param("again", Depends("loop"))>>
      [] p = "ping" -> <<Param("y", Depends("pong"))>>
      [] p = "pong" -> <<Param("z", Depends("ping"))>>
      [] OTHER -> <<>>

\* ------------------------------------------------------------- tag classes
CustomClasses == {"Tracker", "ValueCapture", "Strict", "Exploding"}

\* bind_to_parameter returns a fresh copy (TRUE) or self (FALSE).
BindFresh(class) == class \in {"Tracker", "Strict"}
\* bind_to_parameter raises: Strict refuses an absent value.
BindRaises(class, value) == class = "Strict" /\ value.kind = "none"
\* __aenter__ raises.
EnterRaises(class) == class = "Exploding"
\* The class defines an __aexit__ of its own; the others inherit
\* Dependency.__aexit__, which does nothing.
HasExit(class) == class = "Tracker"

\* ------------------------------------------------------------- callables
Functions ==
    {"f_dedup", "f_fail", "f_a", "f_b", "f_pool", "f_sfail", "f_tags", "f_explode",
     "f_watch", "f_guard", "f_plain", "f_again", "f_next", "f_fragile",
     "f_loop", "f_ring", "f_mark"}

\* get_dependency_parameters(function): parameters with a Dependency default,
\* in declaration order.
DependencyParameters(f) ==
    CASE f = "f_dedup" ->
            <<Param("a", Depends("base")), Param("v", Depends("derived")),
              Param("b", Depends("base"))>>
      [] f = "f_fail" ->
            <<Param("x", Depends("boom")), Param("z", Depends("resource")),
              Param("y", Depends("boom"))>>
      [] f = "f_a" ->
            <<Param("v", Shared("resource_a")), Param("w", Depends("resource_a"))>>
      [] f = "f_b" -> <<Param("v", Shared("resource_b"))>>
      [] f = "f_sfail" -> <<Param("s", Shared("boom"))>>
      [] f = "f_pool" -> <<Param("p", Shared("pool"))>>
      [] f = "f_fragile" -> <<Param("v", Shared("fragile"))>>
      [] f = "f_loop" ->
            <<Param("p", Depends("loop")), Param("r", Depends("resource"))>>
      [] f = "f_ring" ->
            <<Param("q", Depends("ping")), Param("v", Depends("derived"))>>
      [] f = "f_mark" -> <<Param("x", Depends("bad")), Param("z", Depends("base"))>>
      [] f = "f_tags" -> <<Param("x", Depends("base"))>>
      [] f = "f_explode" -> <<Param("y", Depends("resource"))>>
      [] f = "f_watch" -> <<Param("x", Depends("base"))>>
      [] f = "f_again" ->
            <<Param("r", Shared("resource_a")), Param("w", Depends("resource")),
              Param("u", Shared("resource_a"))>>
      [] f = "f_next" ->
            <<Param("r", Shared("resource_a")), Param("q", Shared("base"))>>
      [] OTHER -> <<>>

\* get_annotation_dependencies(function): Annotated metadata per parameter.
AnnotationDependencies(f) ==
    CASE f = "f_tags" ->
            <<Annotated("x", <<Custom("Tracker"), Custom("ValueCapture")>>)>>
      [] f = "f_explode" ->
            <<Annotated("n", <<Custom("Tracker"), Custom("Strict")>>),
              Annotated("y", <<Custom("Exploding")>>)>>
      [] f = "f_watch" -> <<Annotated("n", <<Custom("Tracker")>>)>>
      [] f = "f_guard" -> <<Annotated("n", <<Custom("Tracker")>>)>>
      [] f = "f_mark" ->
            <<Annotated("x", <<Custom("Tracker"), Custom("ValueCapture")>>)>>
      [] OTHER -> <<>>

\* The parameters of the signature that carry no dependency at all.
PlainParameters(f) == IF f \in {"f_watch", "f_plain"} THEN <<"k">> ELSE <<>>

Range(seq) == {seq[k] : k \in DOMAIN seq}

ParameterNames(f) ==
    {q.param : q \in Range(DependencyParameters(f))}
        \cup {a.param : a \in Range(AnnotationDependencies(f))}

\* The callables of one program.  Callables that only use call-scoped
\* dependencies share no state, so each is a program of its own; the ones that
\* meet in the shared cache are resolved side by side.
Applications ==
    {{"f_dedup"}, {"f_fail"}, {"f_a", "f_b"}, {"f_a", "f_pool"}, {"f_sfail"},
     {"f_tags", "f_explode"}, {"f_watch"}}

\* The program declares a shared dependency somewhere (and so opens a
\* SharedContext).
RECURSIVE NeedsSharedPast(_, _)
NeedsSharedPast(d, seen) ==
    \/ d.kind = "shared"
    \/ /\ d.kind = "depends"
       /\ d.name \notin seen
       /\ \E r \in Range(FactoryParameters(d.name)) :
                NeedsSharedPast(r.dep, seen \cup {d.name})

NeedsShared(d) == NeedsSharedPast(d, {})

UsesShared(functions) ==
    \E f \in functions : \E q \in Range(DependencyParameters(f)) : NeedsShared(q.dep)

\* The kwargs a caller may pass: values for some parameters of the signature.
Overrides(f) ==
    {S \in SUBSET (ParameterNames(f) \cup Range(PlainParameters(f))) :
        Cardinality(S) <= MaxOverrides}

\* ------------------------------------------------------------- state
VARIABLES app, task, shared

\* The callable handed to validate_dependencies and what the call gave.
VARIABLES declared, verdict

\* The memo of without_dependencies and the callables it has returned.
VARIABLES memo

\* The raw results handed to _resolve_factory_value, the stack it enters them
\* into and what it returned for them.
VARIABLES adapter

vars == <<app, task, shared, declared, verdict, memo, adapter>>

\* What the resolution engine never touches.
outside == <<declared, verdict, memo, adapter>>

\* get_signature(function): the parameter names in declaration order, those
\* without a default before those with a dependency default.
Signature(f) ==
    LET defaults == [k \in DOMAIN DependencyParameters(f) |->
                        DependencyParameters(f)[k].param]
        tagged == [k \in DOMAIN AnnotationDependencies(f) |->
                        AnnotationDependencies(f)[k].param]
    IN  PlainParameters(f)
            \o SelectSeq(tagged, LAMBDA name : name \notin Range(defaults))
            \o defaults

\* A callable: a function of the program or a wrapper made for one.
Function(f) == [kind |-> "function", of |-> f, n |-> 0, signature |-> Signature(f)]
NoCallable == [kind |-> "none", of |-> "", n |-> 0, signature |-> <<>>]

\* What a call of the original function gives: it depends on the function and
\* the keyword arguments it was called with.
Result(f, all_kwargs) == [of |-> f, args |-> all_kwargs]
NoResult == Result("", EmptyDict)

\* What the two ContextVars of _Depends held when a scope was entered: the
\* tokens of `set` keep it for `reset`.  Outside every scope they hold nothing.
Token(cache, stack) == [cache |-> cache, stack |-> stack]
NoToken == Token(EmptyDict, <<>>)

\* The scope inside whose body a scope was entered; none for a scope entered
\* outside every other.
NoParent == 0

IdleTask ==
    [pc |-> "idle", fn |-> "", provided |-> {}, i |-> 1, ai |-> 1, aj |-> 1,
     parent |-> NoParent, token |-> NoToken,
     via |-> NoCallable, passed |-> EmptyDict, held |-> <<>>,
     result |-> NoResult, returned |-> NoResult,
     arguments |-> EmptyDict, cache |-> EmptyDict, stack |-> <<>>,
     frames |-> <<>>, exc |-> NoError, yielded |-> FALSE,
     serial |-> [x \in Producers \cup CustomClasses |-> 0],
     acquired |-> <<>>, released |-> <<>>, calls |-> <<>>,
     delivered |-> {}, bindings |-> <<>>, attempted |-> {}, hits |-> {},
     ctx |-> 0]

\* No SharedContext was entered: the three ContextVars hold nothing.  `scope`
\* numbers the SharedContext whose cache, lock and stack are active, `saved`
\* keeps what the tokens of the SharedContexts entered inside others restore,
\* `within` the scope of each invocation, `ended` the SharedContexts whose
\* __aexit__ is over and `failed` those among them whose __aexit__ raised;
\* `gone` keeps the cache, lock and stack of the SharedContexts the ContextVars
\* no longer hold (the tasks begun inside them still do), and `waiting` tells
\* that the __aexit__ in progress is suspended in a release.
UnopenedShared ==
    [state |-> "unopened", resolved |-> EmptyDict, lock |-> 0, waiters |-> <<>>,
     stack |-> <<>>, requests |-> <<>>,
     acquired |-> <<>>, released |-> <<>>, calls |-> <<>>, delivered |-> {},
     scope |-> 0, opened |-> 0, saved |-> <<>>, within |-> <<>>,
     raising |-> FALSE, ended |-> {}, failed |-> {},
     gone |-> EmptyDict, waiting |-> FALSE]

\* validate_dependencies has not returned or raised yet.
NoVerdict == [raised |-> FALSE, check |-> "none", names |-> "", found |-> <<>>]

\* Nothing was handed to validate_dependencies.
NotValidated ==
    /\ declared = [defaults |-> <<>>, annotations |-> <<>>]
    /\ verdict = NoVerdict

\* The memo of without_dependencies: its entries from the least to the most
\* recently used, the callables it has returned, the number of wrappers made
\* and what its last call returned.
EmptyMemo ==
    [cache |-> <<>>, returned |-> {}, made |-> 0,
     last |-> NoCallable]

\* No raw result is waiting for _resolve_factory_value.
Unadapted == [pending |-> <<>>, stack |-> <<>>, values |-> <<>>]

Init ==
    /\ app \in Applications
    /\ task = [t \in Tasks |-> IdleTask]
    /\ shared = UnopenedShared
    /\ NotValidated
    /\ memo = EmptyMemo
    /\ adapter = Unadapted

Active(t) == task[t].pc \notin {"idle", "done"}

\* What the three ContextVars hold in a SharedContext entered inside another.
Saved(sh) ==
    [scope |-> sh.scope, resolved |-> sh.resolved, lock |-> sh.lock,
     waiters |-> sh.waiters, stack |-> sh.stack, requests |-> sh.requests]

\* The ContextVars hold the cache, the lock and the stack of `held`.
Holding(sh, held) ==
    [sh EXCEPT !.scope = held.scope, !.resolved = held.resolved,
               !.lock = held.lock, !.waiters = held.waiters,
               !.stack = held.stack, !.requests = held.requests]

\* A task runs in the copy of the context it was created with: the
\* ContextVars of SharedContext hold for it, all its life, what they held when
\* its resolution began, whatever SharedContext.__aenter__ has set and
\* SharedContext.__aexit__ has reset since: the objects of a SharedContext
\* that is the active one, that has another entered inside it (the tokens
\* keep them), or that was left.
Seen(ctx) ==
    LET enclosing == {i \in DOMAIN shared.saved : shared.saved[i].scope = ctx}
    IN  IF ctx = shared.scope THEN shared
        ELSE IF enclosing # {}
        THEN Holding(shared, shared.saved[CHOOSE i \in enclosing : TRUE])
        ELSE IF ctx \in DOMAIN shared.gone THEN Holding(shared, shared.gone[ctx])
        ELSE Holding(shared, Saved(UnopenedShared))

\* What a step of such a task leaves: the objects it worked on changed, the
\* ContextVars of the context that entered the SharedContexts did not.
Kept(ctx, seen) ==
    LET enclosing == {i \in DOMAIN shared.saved : shared.saved[i].scope = ctx}
    IN  IF ctx = shared.scope THEN seen
        ELSE IF enclosing # {}
        THEN [Holding(seen, Saved(shared))
                EXCEPT !.saved[CHOOSE i \in enclosing : TRUE] = Saved(seen)]
        ELSE IF ctx \in DOMAIN shared.gone
        THEN [Holding(seen, Saved(shared)) EXCEPT !.gone = Put(@, ctx, Saved(seen))]
        ELSE Holding(seen, Saved(shared))

\* The slice of the state one task's step reads and writes.
Within(t, ctx) == [t |-> t, task |-> task[t], shared |-> Seen(ctx)]
St(t) == Within(t, task[t].ctx)

\* SharedContext.__aexit__ runs on its own until a release suspends it: the
\* tasks take their steps while it waits in one.
Awake == shared.state = "closing" => shared.waiting

\* ------------------------------------------------------------- decisions
\* Variant: the caches are keyed by what the producer returns.
KeyByValue(factory) == Output(factory)

\* `self.factory in cache`, `cache[self.factory] = ...`: the key is the
\* factory function, which hashes and compares by identity.
Key(factory) == factory

\* Variant: a scope cache that is never consulted.
InCacheNever(cache, factory) == FALSE

\* `if self.factory in cache` / `if self.factory in resolved`
InCache(cache, factory) == Key(factory) \in DOMAIN cache

\* Variant: no second look once the lock is held.
RecheckNever(resolved, factory) == FALSE

\* The second look at the shared cache, made while holding the lock.
Recheck(resolved, factory) == Key(factory) \in DOMAIN resolved

\* Variant: the caller's values are ignored.
NeverProvided(parameter, provided) == FALSE

\* Variant: a shared scope is taken to exist whether or not one was opened.
HasSharedScopeAlways(sh) == TRUE

\* `SharedContext.resolved.get()` finds a value when the context of the task
\* holds one: a SharedContext was entered and its `reset` calls have not run
\* in that context.  Otherwise it raises LookupError.
HasSharedScope(sh) == sh.scope # 0

\* `if parameter in provided`
IsProvided(parameter, provided) == parameter \in provided

\* Variants: no error is caught around the entry of a default dependency, or
\* every one is, as by `except BaseException`.
CapturesNothing(error) == FALSE
CapturesEverything(error) == TRUE

\* `except Exception as error` around the entry of a default dependency.
CapturesFailure(error) == error.by # "cancel"

\* Variants: every context manager goes to the resolution scope's stack, or
\* every one to the shared scope's.
AdaptStackScope(kind) == "scope"
AdaptStackShared(kind) == "shared"

\* The release stack a producer's context manager is entered into.
AdaptStack(kind) == IF kind = "shared" THEN "shared" ELSE "scope"

\* The release stack _resolve_parameters enters a producer's dependencies into.
ParametersStack(kind) == IF kind = "shared" THEN "shared" ELSE "scope"

\* _resolve_factory_value: only the two context-manager shapes register a release.
RegistersRelease(shape) == shape \in {"acm", "cm"}

\* _resolve_factory_value awaits an async context manager's entry and an
\* awaitable; a plain value and a sync context manager are adapted at once.
MaySuspend(shape) == shape \in {"acm", "await"}

\* Variant: the scope goes on with the cache it finds.
KeptCache(inherited) == inherited

\* `cache_token = _Depends.cache.set({})`: the scope starts with an empty
\* cache whatever the enclosing scope has cached.
FreshCache(inherited) == EmptyDict

\* Variant: the ContextVars are left as the scope had them.
Unrestored(tk) == Token(tk.cache, tk.stack)

\* `_Depends.stack.reset(stack_token)` and `_Depends.cache.reset(cache_token)`:
\* what was active before the scope is active again.
Restored(tk) == tk.token

\* Variant: the producer is invoked without waiting for its dependencies.
ParametersSkipped(fr) == TRUE

\* The loop of _resolve_parameters over the producer's own dependencies has
\* ended: `arguments` holds a value for every one of them.
ParametersResolved(fr) == fr.k > Len(FactoryParameters(fr.factory))

\* Variant: a stack that unwinds first in, first out.
OldestFirst(stack) == 1

\* AsyncExitStack unwinds last in, first out.
NextToRelease(stack) == Len(stack)

\* ------------------------------------------------------------- release stacks
ExitEntry(d) == [kind |-> "dep", src |-> d.name, id |-> d.inst]
ResourceEntry(p, id) == [kind |-> "cm", src |-> p, id |-> id]

\* Variant: the exit callback is put under the ones already registered.
PushUnder(st, where, entry) ==
    IF where = "shared"
    THEN [st EXCEPT !.shared.stack = <<entry>> \o @,
                    !.shared.acquired = Append(@, entry)]
    ELSE [st EXCEPT !.task.stack = <<entry>> \o @,
                    !.task.acquired = Append(@, entry)]

Push(st, where, entry) ==
    IF where = "shared"
    THEN [st EXCEPT !.shared.stack = Append(@, entry),
                    !.shared.acquired = Append(@, entry)]
    ELSE [st EXCEPT !.task.stack = Append(@, entry),
                    !.task.acquired = Append(@, entry)]

\* enter_async_context(dependency) registers dependency.__aexit__.  The
\* inherited __aexit__ does nothing, so only a class with an exit of its own
\* leaves an entry.
Register(st, where, d) ==
    IF d.kind = "custom" /\ HasExit(d.name) THEN Push(st, where, ExitEntry(d)) ELSE st

Without(seq, k) == [j \in 1..(Len(seq) - 1) |-> IF j < k THEN seq[j] ELSE seq[j + 1]]

\* ------------------------------------------------------------- resolution
\* The parameter on whose behalf the task is acquiring.
CurrentParameter(tk) ==
    IF tk.pc = "defaults"
    THEN DependencyParameters(tk.fn)[tk.i].param
    ELSE AnnotationDependencies(tk.fn)[tk.ai].param

\* Variant: the value a tag-bound dependency returns is stored like a default's.
StoreAlways(tk, name, v) == Put(tk.arguments, name, v)

\* The defaults loop stores the entered value under the parameter's name; the
\* annotations loop drops it.
Store(tk, name, v) == IF tk.pc = "defaults" THEN Put(tk.arguments, name, v) ELSE tk.arguments

\* `stack.enter_async_context(dependency)` returned v: the caller registers the
\* dependency's __aexit__ on its stack and stores the value.
Return(st, d, v) ==
    LET tk == st.task
        logged ==
            IF d.kind = "depends"
            THEN [st EXCEPT !.task.delivered = @ \cup {<<d.name, v>>}]
            ELSE IF d.kind = "shared"
            THEN [st EXCEPT !.shared.delivered = @ \cup {<<d.name, v>>}]
            ELSE st
    IN  IF tk.frames # <<>>
        THEN LET top == Len(tk.frames)
                 parent == tk.frames[top]
                 name == FactoryParameters(parent.factory)[parent.k].param
                 s1 == Register(logged, ParametersStack(parent.kind), d)
             IN  [s1 EXCEPT !.task.frames[top].args = Append(@, <<name, v>>),
                            !.task.frames[top].k = @ + 1]
        ELSE IF tk.pc = "defaults"
        THEN LET name == DependencyParameters(tk.fn)[tk.i].param
                 s1 == Register(logged, "scope", d)
             IN  [s1 EXCEPT !.task.arguments = Store(tk, name, v), !.task.i = @ + 1]
        ELSE LET a == AnnotationDependencies(tk.fn)[tk.ai]
                 s1 == Register(logged, "scope", d)
                 s2 == [s1 EXCEPT !.task.arguments = Store(tk, a.param, v)]
             IN  IF tk.aj < Len(a.deps)
                 THEN [s2 EXCEPT !.task.aj = @ + 1]
                 ELSE [s2 EXCEPT !.task.ai = @ + 1, !.task.aj = 1]

\* Variant: the error leaves the scope without unwinding its release stack.
PropagateLeaking(st, e) ==
    [st EXCEPT !.task.exc = e, !.task.pc = "unwinding", !.task.stack = <<>>]

\* An error leaves resolved_dependencies: the `async with AsyncExitStack()`
\* block it passes through unwinds the stack before the caller sees it.
Propagate(st, e) == [st EXCEPT !.task.exc = e, !.task.pc = "unwinding"]

\* Variant: the lock stays with its holder after the locked block.
LockKept(holder) == holder

\* The end of the `async with SharedContext.lock.get():` block, by return or
\* by error: nobody holds the lock.
LockReleased(holder) == 0

\* Variant: an error inside the locked block leaves the lock with its holder.
ExitHolding(st) == st

\* `async with SharedContext.lock.get():` is left by an error: its __aexit__
\* releases the lock the task holds.
ExitLocked(st) ==
    IF st.shared.lock = st.t
    THEN [st EXCEPT !.shared.lock = LockReleased(st.t)]
    ELSE st

\* An error leaves every __aenter__ in progress (none of them catches it; the
\* `async with` of the shared lock releases the lock on the way out) and
\* reaches resolved_dependencies.
Raise(st, e) ==
    LET tk == st.task
        unlocked == ExitLocked(st)
        s1 == [unlocked EXCEPT !.task.frames = <<>>,
                               !.shared.waiters =
                                    SelectSeq(@, LAMBDA w : w # st.t)]
    IN  IF tk.pc = "defaults" /\ CapturesFailure(e)
        THEN LET name == DependencyParameters(tk.fn)[tk.i].param
             IN  [s1 EXCEPT !.task.arguments =
                                Put(@, name, FailedDependency(name, e)),
                            !.task.i = @ + 1]
        ELSE Propagate(s1, e)

\* An __aenter__ that goes past its first look at the cache.  `cached` keeps
\* what the cache held at that moment.
PushFrame(st, d) ==
    LET cache == IF d.kind = "shared" THEN st.shared.resolved ELSE st.task.cache
    IN  [st EXCEPT !.task.frames =
            Append(@, [kind |-> d.kind, factory |-> d.name, k |-> 1,
                       args |-> <<>>, pc |-> "params", id |-> NoId,
                       cached |-> d.name \in DOMAIN cache])]

\* The acquisitions a task can have in progress, one inside the other, before
\* the interpreter's recursion limit is hit.
MaxDepth == 3

\* An __aenter__ that has to resolve its producer's parameters: one more
\* level of calls, or RecursionError when the interpreter allows no more.
Descend(st, d) ==
    IF Len(st.task.frames) >= MaxDepth
    THEN Raise(st, RecursionError)
    ELSE PushFrame(st, d)

\* Variant: the shared cache is looked at under the lock only.
NoFirstLook(resolved, factory) == FALSE

\* `if self.factory in resolved: return resolved[self.factory]`, before
\* anything is awaited.
FirstLook(resolved, factory) == InCache(resolved, factory)

\* The first request for each shared producer in the open shared scope, in
\* order; and the requests served from the cache while the lock was held, with
\* its holder.
Requested(st, d) ==
    LET s1 == IF d.name \in Range(st.shared.requests) THEN st
              ELSE [st EXCEPT !.shared.requests = Append(@, d.name)]
    IN  IF InCache(st.shared.resolved, d.name) /\ st.shared.lock # 0
        THEN [s1 EXCEPT !.task.hits =
                @ \cup {[factory |-> d.name, holder |-> st.shared.lock]}]
        ELSE s1

PopFrame(st) ==
    [st EXCEPT !.task.frames = SubSeq(@, 1, Len(@) - 1)]

\* The start of dependency.__aenter__().
Enter(st, d) ==
    CASE d.kind = "depends" ->
            IF InCache(st.task.cache, d.name)
            THEN Return(st, d, st.task.cache[Key(d.name)])
            ELSE Descend(st, d)
      [] d.kind = "shared" ->
            IF ~HasSharedScope(st.shared)
            THEN Raise(st, LookupError)
            ELSE IF FirstLook(st.shared.resolved, d.name)
            THEN Return(Requested(st, d), d, st.shared.resolved[Key(d.name)])
            ELSE Descend(Requested(st, d), d)
      [] OTHER ->
            IF EnterRaises(d.name)
            THEN Raise(st, Error(d.name, d.inst))
            ELSE Return(st, d, Value(d.name, d.inst))

\* `raw_value = self.factory(**arguments)`
Invoke(st) ==
    LET tk == st.task
        top == Len(tk.frames)
        fr == tk.frames[top]
        id == IF fr.kind = "shared"
              THEN Id(SharedScope, Len(st.shared.calls) + 1)
              ELSE Id(st.t, tk.serial[fr.factory] + 1)
        call == [factory |-> fr.factory, via |-> fr.kind, by |-> st.t,
                 param |-> CurrentParameter(tk), id |-> id, args |-> fr.args]
        s1 == [st EXCEPT !.task.serial[fr.factory] = @ + 1,
                         !.task.frames[top].id = id,
                         !.task.frames[top].pc = "adapt",
                         !.task.calls = Append(@, call)]
    IN  IF fr.kind = "shared"
        THEN [s1 EXCEPT !.shared.calls = Append(@, call),
                        !.shared.within = Append(@, st.shared.scope)]
        ELSE s1

\* `resolved_value = await self._resolve_factory_value(stack, raw_value)`, the
\* store into the cache and the return.
Complete(st) ==
    LET tk == st.task
        fr == tk.frames[Len(tk.frames)]
        v == Value(fr.factory, fr.id)
        d == [kind |-> fr.kind, name |-> fr.factory, inst |-> NoId]
        s1 == IF RegistersRelease(FactoryShape(fr.factory))
              THEN Push(st, AdaptStack(fr.kind), ResourceEntry(fr.factory, fr.id))
              ELSE st
        s2 == IF fr.kind = "shared"
              THEN [s1 EXCEPT !.shared.resolved = Put(@, Key(fr.factory), v),
                              !.shared.lock = LockReleased(st.t)]
              ELSE [s1 EXCEPT !.task.cache = Put(@, Key(fr.factory), v)]
    IN  Return(PopFrame(s2), d, v)

\* Variant: the locked block is entered whoever holds the lock.
LockIgnored(sh) == TRUE

\* Variant: a lock that is not held is taken past those waiting for it.
LockBarging(sh) == sh.lock = 0

\* asyncio.Lock.acquire returns at once when the lock is not held and nobody
\* is waiting for it; otherwise the caller queues, first come first served.
LockFree(sh) == sh.lock = 0 /\ sh.waiters = <<>>

\* The block under `async with SharedContext.lock.get():` starts: the second
\* look at the cache, then the invocation.
Locked(st) ==
    LET fr == st.task.frames[Len(st.task.frames)]
        d == [kind |-> fr.kind, name |-> fr.factory, inst |-> NoId]
    IN  IF Recheck(st.shared.resolved, fr.factory)
        THEN Return(PopFrame(st), d, st.shared.resolved[Key(fr.factory)])
        ELSE Invoke([st EXCEPT !.shared.lock = st.t])

\* The factory's result is adapted, or the factory's error surfaces.
Adapted(st) ==
    LET fr == st.task.frames[Len(st.task.frames)]
    IN  IF FactoryRaises(fr.factory)
        THEN Raise(st, Error(fr.factory, fr.id))
        ELSE Complete(st)

\* Variant: a Failure Marker is not handed to bind_to_parameter.
FinalValueUnmarked(tk, name) ==
    IF name \in tk.provided THEN ProvidedValue(name)
    ELSE IF name \in DOMAIN tk.arguments /\ tk.arguments[name].kind # "failed"
    THEN tk.arguments[name]
    ELSE None

\* Variant: the bound value is looked up among the resolved arguments only.
FinalValueResolved(tk, name) ==
    IF name \in DOMAIN tk.arguments THEN tk.arguments[name] ELSE None

\* `value = provided.get(parameter_name, arguments.get(parameter_name))`
FinalValue(tk, name) ==
    IF name \in tk.provided THEN ProvidedValue(name)
    ELSE IF name \in DOMAIN tk.arguments THEN tk.arguments[name]
    ELSE None

\* Variant: the declared descriptor is entered, whatever the binding returned.
EnteredOriginal(dependency, bound) == dependency

\* `await stack.enter_async_context(bound)`: what is entered is the object
\* bind_to_parameter returned.
Entered(dependency, bound) == bound

\* `bound = dependency.bind_to_parameter(parameter_name, value)` and
\* `await stack.enter_async_context(bound)`
Bind(st) ==
    LET tk == st.task
        a == AnnotationDependencies(tk.fn)[tk.ai]
        d == a.deps[tk.aj]
        value == FinalValue(tk, a.param)
        fresh == Id(st.t, tk.serial[d.name] + 1)
        bound == IF BindFresh(d.name) THEN [d EXCEPT !.inst = fresh] ELSE d
        entered == Entered(d, bound)
        binding == [class |-> d.name, param |-> a.param, value |-> value,
                    inst |-> bound.inst,
                    entered |-> IF BindRaises(d.name, value) THEN <<>>
                                ELSE <<entered.inst>>]
        s1 == [st EXCEPT !.task.bindings = Append(@, binding)]
        s2 == [s1 EXCEPT !.task.serial[d.name] = IF BindFresh(d.name) THEN @ + 1 ELSE @]
    IN  IF BindRaises(d.name, value)
        THEN Raise(s1, Error(d.name, NoId))
        ELSE Enter(s2, entered)

\* A parameter present in kwargs is passed through without resolution.
PassThrough(st) ==
    LET name == DependencyParameters(st.task.fn)[st.task.i].param
    IN  [st EXCEPT !.task.arguments = Put(@, name, ProvidedValue(name)),
                   !.task.i = @ + 1]

\* The task runs until it has to wait: for the result of a producer that is
\* awaited, for the shared lock, or for the caller's body.
RECURSIVE Run(_)
Run(st) ==
    LET tk == st.task
    IN  IF tk.frames # <<>>
        THEN LET top == Len(tk.frames)
                 fr == tk.frames[top]
                 params == FactoryParameters(fr.factory)
             IN  IF fr.pc = "params"
                 THEN IF ~ParametersResolved(fr)
                      THEN Run(Enter(st, params[fr.k].dep))
                      ELSE IF fr.kind = "shared"
                      THEN IF LockFree(st.shared)
                           THEN Run(Locked(st))
                           ELSE [st EXCEPT !.task.frames[top].pc = "lock",
                                           !.shared.waiters = Append(@, st.t)]
                      ELSE Run(Invoke(st))
                 ELSE IF fr.pc = "adapt" /\ ~MaySuspend(FactoryShape(fr.factory))
                 THEN Run(Adapted(st))
                 ELSE st
        ELSE IF tk.pc = "defaults"
        THEN LET params == DependencyParameters(tk.fn)
             IN  IF tk.i > Len(params)
                 THEN Run([st EXCEPT !.task.pc = "annotations"])
                 ELSE IF IsProvided(params[tk.i].param, tk.provided)
                 THEN Run(PassThrough(st))
                 ELSE Run(Enter([st EXCEPT !.task.attempted =
                                               @ \cup {params[tk.i].param}],
                                params[tk.i].dep))
        ELSE IF tk.pc = "annotations"
        THEN IF tk.ai > Len(AnnotationDependencies(tk.fn))
             THEN [st EXCEPT !.task.pc = "yielded", !.task.yielded = TRUE]
             ELSE Run(Bind(st))
        ELSE st

Apply(t, st) ==
    /\ task' = [task EXCEPT ![t] = st.task]
    /\ shared' = Kept(st.task.ctx, st.shared)

\* ------------------------------------------------------------- actions
\* The tasks are interchangeable: the next resolution is that of the first
\* task that has none yet.
NextTask(t) == task[t].pc = "idle" /\ \A o \in Tasks : o < t => task[o].pc # "idle"

\* resolved_dependencies(function, kwargs) is entered: a fresh cache and a
\* fresh AsyncExitStack are installed and the resolution runs to its first wait.
Begin(t, f, prov) ==
    /\ NextTask(t)
    /\ Awake
    /\ Apply(t, Run([Within(t, shared.scope) EXCEPT !.task =
                        [IdleTask EXCEPT !.pc = "defaults", !.fn = f,
                                         !.provided = prov,
                                         !.ctx = shared.scope]]))
    /\ UNCHANGED <<app, outside>>

\* The lock was released and this task is the first of those waiting for it:
\* its `async with SharedContext.lock.get():` goes on.
AcquireLock(t) ==
    LET tk == task[t]
        fr == tk.frames[Len(tk.frames)]
    IN  /\ tk.frames # <<>>
        /\ fr.pc = "lock"
        /\ Awake
        /\ St(t).shared.lock = 0
        /\ St(t).shared.waiters # <<>>
        /\ Head(St(t).shared.waiters) = t
        /\ Apply(t, Run(Locked([St(t) EXCEPT !.shared.waiters = Tail(@)])))
        /\ UNCHANGED <<app, outside>>

\* The awaited result of the factory arrives (or its error does).
Adapt(t) ==
    LET tk == task[t]
        fr == tk.frames[Len(tk.frames)]
    IN  /\ tk.frames # <<>>
        /\ fr.pc = "adapt"
        /\ Awake
        /\ Apply(t, Run(Adapted(St(t))))
        /\ UNCHANGED <<app, outside>>

\* A scope is entered inside the body of another, in the same task:
\* `async with resolved_dependencies(f): async with resolved_dependencies(g):`.
Nest(u, t, f, prov) ==
    /\ NextTask(u)
    /\ task[t].pc = "yielded"
    /\ \A o \in Tasks : Active(o) => task[o].parent # t
    /\ Awake
    /\ Apply(u, Run([Within(u, task[t].ctx) EXCEPT !.task =
                        [IdleTask EXCEPT !.pc = "defaults", !.fn = f,
                                         !.provided = prov, !.parent = t,
                                         !.ctx = task[t].ctx,
                                         !.token = Token(task[t].cache, task[t].stack),
                                         !.cache = FreshCache(task[t].cache)]]))
    /\ UNCHANGED <<app, outside>>

\* The caller's `async with` body ends, normally or with an error.  A body
\* that has entered a scope of its own leaves that one first.
ExitBody(t, e) ==
    /\ task[t].pc = "yielded"
    /\ Awake
    /\ \A o \in Tasks : Active(o) => task[o].parent # t
    /\ task' = [task EXCEPT ![t].pc = "unwinding", ![t].exc = e]
    /\ UNCHANGED <<app, shared, outside>>

\* AsyncExitStack.__aexit__ runs one registered exit.
Unwind(t) ==
    LET tk == task[t]
        k == NextToRelease(tk.stack)
    IN  /\ tk.pc = "unwinding"
        /\ tk.stack # <<>>
        /\ Awake
        /\ task' = [task EXCEPT ![t].released = Append(@, tk.stack[k]),
                                ![t].stack = Without(@, k)]
        /\ UNCHANGED <<app, shared, outside>>

\* The stack is empty: the ContextVars are reset, the context manager ends
\* and the scope's cache, stack and arguments are gone.
Finish(t) ==
    LET tk == task[t]
        ended == [IdleTask EXCEPT !.pc = "done", !.parent = tk.parent,
                                  !.token = tk.token]
    IN  /\ tk.pc = "unwinding"
        /\ tk.stack = <<>>
        /\ Awake
        /\ task' = [o \in Tasks |->
                        IF o = t THEN ended
                        ELSE IF o = tk.parent
                        THEN [task[o] EXCEPT !.cache = Restored(tk).cache,
                                             !.stack = Restored(tk).stack]
                        ELSE task[o]]
        /\ UNCHANGED <<app, shared, outside>>

\* SharedContext.__aenter__: a fresh cache, lock and stack, whatever the
\* resolutions already running do (their contexts hold none).
Open ==
    /\ shared.state = "unopened"
    /\ UsesShared(app)
    /\ shared' = [UnopenedShared EXCEPT !.state = "open", !.scope = 1,
                                        !.opened = 1]
    /\ UNCHANGED <<app, task, outside>>

\* The SharedContexts entered one inside the other and not yet left, from the
\* outermost on, are those the tokens keep and, last, the active one.  The
\* innermost whose __aexit__ has not run is the one whose block ends next: the
\* active one, unless the __aexit__ of every SharedContext from it outwards
\* raised before its `reset` calls (0: there is none).
Innermost(sh) ==
    LET unexited == {i \in DOMAIN sh.saved : sh.saved[i].scope \notin sh.ended}
    IN  IF sh.scope # 0 /\ sh.scope \notin sh.ended THEN Len(sh.saved) + 1
        ELSE IF unexited # {} THEN CHOOSE i \in unexited : \A j \in unexited : j <= i
        ELSE 0

\* The SharedContext whose __aexit__ runs: its number and its `self._stack`.
Exiting(sh) ==
    IF Innermost(sh) = Len(sh.saved) + 1 THEN Saved(sh)
    ELSE sh.saved[Innermost(sh)]

\* SharedContext.__aexit__ is called: the block ends, whether or not the
\* resolutions begun inside it have.
Close ==
    /\ shared.state = "open"
    /\ Innermost(shared) # 0
    /\ shared' = [shared EXCEPT !.state = "closing", !.waiting = FALSE]
    /\ UNCHANGED <<app, task, outside>>

\* `await self._stack.__aexit__(...)` runs one registered exit.  An exit that
\* raises does not keep the stack from running the ones that remain: the error
\* is raised when the stack is empty.  The exit of an async context manager
\* is awaited, and the resolutions of other tasks run meanwhile; that of a
\* sync one is not.
SharedUnwind ==
    LET stack == Exiting(shared).stack
        k == NextToRelease(stack)
        left == Without(stack, k)
    IN  /\ shared.state = "closing"
        /\ stack # <<>>
        /\ shared' = [IF Innermost(shared) = Len(shared.saved) + 1
                      THEN [shared EXCEPT !.stack = left]
                      ELSE [shared EXCEPT !.saved[Innermost(shared)].stack = left]
                        EXCEPT !.released = Append(@, stack[k]),
                               !.raising = @ \/ ReleaseRaises(stack[k].src),
                               !.waiting = (FactoryShape(stack[k].src) = "acm")]
        /\ UNCHANGED <<app, task, outside>>

\* Variant: the cache found again after the inner SharedContext is empty.
Blank(saved) == [saved EXCEPT !.resolved = EmptyDict]

\* `reset(token)` puts back the very objects the ContextVars held.
Prior(saved) == saved

\* The SharedContexts whose cache, lock and stack the ContextVars stop holding
\* when the three `reset` calls of the SharedContext numbered k run (the tasks
\* begun inside them keep them).
Dropped(sh, k) ==
    LET RECURSIVE Stash(_, _)
        Stash(gone, i) ==
            IF i > Len(sh.saved) THEN gone
            ELSE Stash(Put(gone, sh.saved[i].scope, sh.saved[i]), i + 1)
    IN  Put(Stash(sh.gone, k), sh.scope, Saved(sh))

\* The three `reset` calls at the end of __aexit__: the ContextVars hold again
\* what they held when the SharedContext was entered.
Reset(sh) ==
    LET k == Innermost(sh)
        ended == sh.ended \cup {Exiting(sh).scope}
    IN  IF k = 1
        THEN [sh EXCEPT !.state = "closed", !.resolved = EmptyDict, !.scope = 0,
                        !.lock = 0, !.waiters = <<>>, !.stack = <<>>,
                        !.saved = <<>>, !.ended = ended,
                        !.gone = Dropped(sh, k), !.waiting = FALSE]
        ELSE LET prior == Prior(sh.saved[k - 1])
             IN  [sh EXCEPT !.state = "open", !.scope = prior.scope,
                            !.resolved = prior.resolved, !.lock = prior.lock,
                            !.waiters = prior.waiters, !.stack = prior.stack,
                            !.requests = prior.requests,
                            !.saved = SubSeq(@, 1, k - 2),
                            !.ended = ended,
                            !.gone = Dropped(sh, k), !.waiting = FALSE]

\* The error of a release leaves __aexit__ at `await self._stack.__aexit__(...)`:
\* the `reset` calls below it are not reached, and the ContextVars go on
\* holding the cache, the lock and the stack they held.
Unreset(sh) ==
    [sh EXCEPT !.state = "open", !.raising = FALSE, !.waiting = FALSE,
               !.ended = @ \cup {Exiting(sh).scope}, !.failed = @ \cup {Exiting(sh).scope}]

\* The stack is unwound: __aexit__ ends.
Closed ==
    /\ shared.state = "closing"
    /\ Exiting(shared).stack = <<>>
    /\ shared' = IF shared.raising THEN Unreset(shared) ELSE Reset(shared)
    /\ UNCHANGED <<app, task, outside>>

Next ==
    \/ Open
    \/ Close
    \/ SharedUnwind
    \/ Closed
    \/ \E t \in Tasks :
        \/ \E f \in app : \E prov \in Overrides(f) : Begin(t, f, prov)
        \/ AcquireLock(t)
        \/ Adapt(t)
        \/ \E e \in {NoError, BodyError} : ExitBody(t, e)
        \/ Unwind(t)
        \/ Finish(t)

Spec == Init /\ [][Next]_vars

\* ------------------------------------------------------------- shared scope
\* Programs whose resolutions meet at the shared lock.
SharedApplications == {{"f_again", "f_b"}, {"f_next", "f_b"}, {"f_pool"}}

InitShared ==
    /\ app \in SharedApplications
    /\ task = [t \in Tasks |-> IdleTask]
    /\ shared = UnopenedShared
    /\ NotValidated
    /\ memo = EmptyMemo
    /\ adapter = Unadapted

SpecShared == InitShared /\ [][Next]_vars

\* The guards of Adapt and of AcquireLock: the awaited producer of the task has
\* its result; the lock was released and the task is its first waiter.
AdaptReady(t) ==
    /\ task[t].frames # <<>>
    /\ task[t].frames[Len(task[t].frames)].pc = "adapt"
    /\ Awake

LockReady(t) ==
    /\ task[t].frames # <<>>
    /\ task[t].frames[Len(task[t].frames)].pc = "lock"
    /\ Awake
    /\ St(t).shared.lock = 0
    /\ St(t).shared.waiters # <<>>
    /\ Head(St(t).shared.waiters) = t

\* The event loop runs every task that is ready: Adapt and AcquireLock are
\* weakly fair (WF_vars, with ENABLED written out as the guard of the action),
\* and so are the steps of SharedContext.__aexit__, whose releases return.
FairApplications == {{"f_next", "f_b"}, {"f_pool"}}

InitFair ==
    /\ app \in FairApplications
    /\ task = [t \in Tasks |-> IdleTask]
    /\ shared = UnopenedShared
    /\ NotValidated
    /\ memo = EmptyMemo
    /\ adapter = Unadapted

SpecSharedFair ==
    /\ InitFair
    /\ [][Next]_vars
    /\ \A t \in Tasks :
            /\ []<>(~AdaptReady(t)) \/ []<><<Adapt(t)>>_vars
            /\ []<>(~LockReady(t)) \/ []<><<AcquireLock(t)>>_vars
    /\ []<>(shared.state # "closing") \/ []<><<SharedUnwind \/ Closed>>_vars

\* ------------------------------------------------------------- nested shared scopes
\* The SharedContexts entered inside the first one.
MaxInner == 1

\* `async with SharedContext():` inside the block of another: a fresh cache,
\* lock and stack are installed, and the tokens keep what was active.  The
\* resolutions running in the enclosing one go on with its objects.
OpenInside ==
    /\ shared.state = "open"
    /\ shared.opened <= MaxInner
    /\ shared' = [shared EXCEPT !.scope = shared.opened + 1,
                                !.opened = @ + 1,
                                !.saved = Append(@, Saved(shared)),
                                !.resolved = EmptyDict, !.lock = 0,
                                !.waiters = <<>>, !.stack = <<>>,
                                !.requests = <<>>]
    /\ UNCHANGED <<app, task, outside>>

\* Programs that enter SharedContexts one inside the other, and one whose
\* shared resource raises when it is released.
NestedApplications == {{"f_b"}, {"f_a"}, {"f_fragile"}}

InitNested ==
    /\ app \in NestedApplications
    /\ task = [t \in Tasks |-> IdleTask]
    /\ shared = UnopenedShared
    /\ NotValidated
    /\ memo = EmptyMemo
    /\ adapter = Unadapted

NextNested ==
    \/ Next
    \/ OpenInside

SpecNested == InitNested /\ [][NextNested]_vars

\* ------------------------------------------------------------- cycles
\* Programs with a producer that depends on itself, directly and through
\* another producer.
CyclicApplications == {{"f_loop"}, {"f_ring"}}

InitCycles ==
    /\ app \in CyclicApplications
    /\ task = [t \in Tasks |-> IdleTask]
    /\ shared = UnopenedShared
    /\ NotValidated
    /\ memo = EmptyMemo
    /\ adapter = Unadapted

NextCycles ==
    \E t \in Tasks :
        \/ \E f \in app : \E prov \in Overrides(f) : Begin(t, f, prov)
        \/ Adapt(t)
        \/ \E e \in {NoError, BodyError} : ExitBody(t, e)
        \/ Unwind(t)
        \/ Finish(t)

SpecCycles == InitCycles /\ [][NextCycles]_vars

\* ------------------------------------------------------------- cancellation
\* The task running the resolution is cancelled while it waits for an
\* awaited producer, for the entry of an async context manager or for the
\* shared lock: CancelledError is raised at that `await`.
Cancel(t) ==
    LET tk == task[t]
        fr == tk.frames[Len(tk.frames)]
    IN  /\ tk.frames # <<>>
        /\ fr.pc \in {"adapt", "lock"}
        /\ Awake
        /\ Apply(t, Run(Raise(St(t), CancelledError)))
        /\ UNCHANGED <<app, outside>>

\* The programs whose resolutions get cancelled.
CancelApplications == {{"f_fail"}, {"f_a", "f_b"}, {"f_sfail"}}

InitCancel ==
    /\ app \in CancelApplications
    /\ task = [t \in Tasks |-> IdleTask]
    /\ shared = UnopenedShared
    /\ NotValidated
    /\ memo = EmptyMemo
    /\ adapter = Unadapted

NextCancel ==
    \/ Next
    \/ \E t \in Tasks : Cancel(t)

SpecCancel == InitCancel /\ [][NextCancel]_vars

\* ------------------------------------------------------------- nested scopes
\* Programs of call-scoped dependencies whose resolutions run one after the
\* other, side by side and one inside the other.
ScopeApplications == {{"f_dedup"}, {"f_watch"}}

InitScopes ==
    /\ app \in ScopeApplications
    /\ task = [t \in Tasks |-> IdleTask]
    /\ shared = UnopenedShared
    /\ NotValidated
    /\ memo = EmptyMemo
    /\ adapter = Unadapted

NextScopes ==
    \E t \in Tasks :
        \/ \E f \in app : \E prov \in Overrides(f) : Begin(t, f, prov)
        \/ \E f \in app : \E prov \in Overrides(f) : \E o \in Tasks :
                Nest(t, o, f, prov)
        \/ Adapt(t)
        \/ \E e \in {NoError, BodyError} : ExitBody(t, e)
        \/ Unwind(t)
        \/ Finish(t)

SpecScopes == InitScopes /\ [][NextScopes]_vars

\* ------------------------------------------------------------- validation
\* The descriptor types a callable may declare.  An instance is represented by
\* its type: validate_dependencies looks at nothing else.
DependencyTypes ==
    {"Runtime", "Timeout", "Deadline", "Watchdog", "Lenient", "NotSingle", "Tracker"}

\* The types found as Annotated metadata.
TagTypes == {"Tracker", "Timeout", "NotSingle"}

Superclass(c) ==
    CASE c \in {"Timeout", "Deadline", "Lenient"} -> "Runtime"
      [] c = "Watchdog" -> "Timeout"
      [] OTHER -> "Dependency"

\* The class body sets `single`, or leaves it to its bases.
DeclaresSingle(c) ==
    CASE c \in {"Runtime", "Tracker"} -> "True"
      [] c \in {"Lenient", "Dependency"} -> "False"
      [] OTHER -> "inherited"

\* type(dependency).__mro__, up to Dependency.
RECURSIVE Mro(_)
Mro(c) == IF c = "Dependency" THEN <<c>> ELSE <<c>> \o Mro(Superclass(c))

\* getattr(cls, "single", False): the attribute of the nearest class that sets it.
RECURSIVE single(_)
single(c) ==
    IF DeclaresSingle(c) = "inherited" THEN single(Superclass(c))
    ELSE DeclaresSingle(c) = "True"

isinstance(dependency, base_class) == base_class \in Range(Mro(dependency))

MaxDefaults == 2
MaxTags == 2

SeqsUpTo(S, n) == UNION {[1..k -> S] : k \in 0..n}

\* get_annotation_dependencies keeps the parameters that have metadata.
AnnotationsOf(xs, ys) ==
    (IF xs = <<>> THEN <<>> ELSE <<Annotated("x", xs)>>)
        \o (IF ys = <<>> THEN <<>> ELSE <<Annotated("y", ys)>>)

\* The callables handed to validate_dependencies: their default dependencies
\* in declaration order and the Annotated metadata of two parameters.
Declarations ==
    {[defaults |-> ds, annotations |-> AnnotationsOf(xs, ys)] :
        ds \in SeqsUpTo(DependencyTypes, MaxDefaults),
        xs \in SeqsUpTo(TagTypes, MaxTags),
        ys \in SeqsUpTo(TagTypes, MaxTags - 1)}

\* The annotation dependencies of all parameters, in order.
RECURSIVE annotation_dependencies(_)
annotation_dependencies(by_parameter) ==
    IF by_parameter = <<>> THEN <<>>
    ELSE by_parameter[1].deps \o annotation_dependencies(Tail(by_parameter))

\* Variant: only the default dependencies are looked at.
default_dependencies_only(function) == function.defaults

\* `all_dependencies = default_dependencies + annotation_dependencies`
all_dependencies(function) ==
    function.defaults \o annotation_dependencies(function.annotations)

\* Counter(type(dependency) for dependency in all_dependencies)[dependency_type]
counts(dependencies, dependency_type) ==
    Cardinality({k \in DOMAIN dependencies : dependencies[k] = dependency_type})

\* Variant: no check of the concrete types.
NoDuplicates(dependencies) == {}

\* The positions of the dependencies whose own type is single and occurs more
\* than once.
Duplicates(dependencies) ==
    {k \in DOMAIN dependencies :
        single(dependencies[k]) /\ counts(dependencies, dependencies[k]) > 1}

\* The single classes, Dependency aside, in the MRO of some dependency.
single_bases(dependencies) ==
    {cls \in UNION {Range(Mro(dependencies[k])) : k \in DOMAIN dependencies} :
        cls # "Dependency" /\ single(cls)}

\* [dependency for dependency in all_dependencies if isinstance(dependency, base_class)]
instances(dependencies, base_class) ==
    SelectSeq(dependencies, LAMBDA d : isinstance(d, base_class))

Valid == [raised |-> FALSE, check |-> "done", names |-> "", found |-> <<>>]
ValueError(check, name, found) ==
    [raised |-> TRUE, check |-> check, names |-> name, found |-> found]

\* validate_dependencies(function): what the call may give.  The Counter is
\* walked in order of first occurrence, so the first duplicated single type is
\* the one reported; single_bases is a set, walked in no particular order, so
\* any base class in conflict may be the one reported.
validate_dependencies(function) ==
    LET dependencies == all_dependencies(function)
        duplicates == Duplicates(dependencies)
        first == CHOOSE k \in duplicates : \A j \in duplicates : k <= j
        conflicts ==
            {base_class \in single_bases(dependencies) :
                Len(instances(dependencies, base_class)) > 1}
    IN  IF duplicates # {}
        THEN {ValueError("type", dependencies[first], <<>>)}
        ELSE IF conflicts # {}
        THEN {ValueError("base", base_class, instances(dependencies, base_class)) :
                base_class \in conflicts}
        ELSE {Valid}

\* validate_dependencies(function) returns or raises.
Validate ==
    /\ verdict = NoVerdict
    /\ verdict' \in validate_dependencies(declared)
    /\ UNCHANGED <<app, task, shared, declared, memo, adapter>>

InitValidate ==
    /\ app = {}
    /\ task = [t \in Tasks |-> IdleTask]
    /\ shared = UnopenedShared
    /\ declared \in Declarations
    /\ verdict = NoVerdict
    /\ memo = EmptyMemo
    /\ adapter = Unadapted

NextValidate == Validate

SpecValidate == InitValidate /\ [][NextValidate]_vars

\* ------------------------------------------------------------- producer adapter
\* The raw results adapted one after the other.
MaxResults == 2

\* What the isinstance tests of _resolve_factory_value can tell of a raw
\* result: it is an AbstractAsyncContextManager, an AbstractContextManager, a
\* coroutine or Awaitable.  A plain value is none of these; a class may be
\* several of them at once.
Traits == {"acm", "cm", "awaitable"}

\* Variant: the test for an awaitable comes first.
AwaitableFirst(raw_value) ==
    IF "awaitable" \in raw_value THEN "await"
    ELSE IF "acm" \in raw_value THEN "acm"
    ELSE IF "cm" \in raw_value THEN "cm"
    ELSE "plain"

\* The if/elif chain of _resolve_factory_value.
Classify(raw_value) ==
    IF "acm" \in raw_value THEN "acm"
    ELSE IF "cm" \in raw_value THEN "cm"
    ELSE IF "awaitable" \in raw_value THEN "await"
    ELSE "plain"

\* `await self._resolve_factory_value(stack, raw_value)`, for the n-th raw
\* result: the stack afterwards and the value returned, which is what the
\* result's __aenter__ or __enter__ gave, what awaiting it gave, or the result
\* itself.
resolve_factory_value(stack, raw_value, n) ==
    LET shape == Classify(raw_value)
    IN  CASE shape = "acm" ->
                [stack |-> Append(stack, [exit |-> "__aexit__", of |-> n]),
                 value |-> [from |-> "__aenter__", of |-> n]]
          [] shape = "cm" ->
                [stack |-> Append(stack, [exit |-> "__exit__", of |-> n]),
                 value |-> [from |-> "__enter__", of |-> n]]
          [] shape = "await" ->
                [stack |-> stack, value |-> [from |-> "await", of |-> n]]
          [] OTHER ->
                [stack |-> stack, value |-> [from |-> "itself", of |-> n]]

\* The next raw result is adapted.
ResolveFactoryValue ==
    LET n == Len(adapter.values) + 1
        got == resolve_factory_value(adapter.stack, adapter.pending[n], n)
    IN  /\ n <= Len(adapter.pending)
        /\ adapter' = [adapter EXCEPT !.stack = got.stack,
                                      !.values = Append(@, got.value)]
        /\ UNCHANGED <<app, task, shared, declared, verdict, memo>>

InitAdapter ==
    /\ app = {}
    /\ task = [t \in Tasks |-> IdleTask]
    /\ shared = UnopenedShared
    /\ NotValidated
    /\ memo = EmptyMemo
    /\ adapter \in {[Unadapted EXCEPT !.pending = raw_values] :
                        raw_values \in SeqsUpTo(SUBSET Traits, MaxResults)}

NextAdapter == ResolveFactoryValue

SpecAdapter == InitAdapter /\ [][NextAdapter]_vars

\* ------------------------------------------------------------- bridge
MaxWraps == 2
MaxCallers == 1

\* The callers of the bridged callables: each calls again and again.
Callers == 1..MaxCallers

\* The programs whose callables are bridged.
BridgeApplications == {{"f_plain", "f_guard"}, {"f_watch"}, {"f_mark"}}

\* Variant: the memo is never consulted.
CachedNowhere(cache, function) == {}

\* The memo's entry for the function, if it has one (lru_cache looks the
\* callable up by identity).
Cached(cache, function) == {k \in DOMAIN cache : cache[k].fn = function}

\* Variant: only the dependency defaults count.
HasDefaults(f) == DependencyParameters(f) # <<>>

\* `if not dependency_names and not annotation_dependencies` does not hold.
HasDependencies(f) ==
    DependencyParameters(f) # <<>> \/ AnnotationDependencies(f) # <<>>

\* `filtered_parameters`: the signature without the dependency defaults.
FilteredSignature(f) ==
    SelectSeq(Signature(f),
              LAMBDA name : \A q \in Range(DependencyParameters(f)) : q.param # name)

\* The body of without_dependencies(function), run on a miss: the function
\* itself, or the n-th wrapper made.
Wrapper(f, n) ==
    IF ~HasDependencies(f)
    THEN Function(f)
    ELSE [kind |-> "wrapper", of |-> f, n |-> n, signature |-> FilteredSignature(f)]

\* without_dependencies(f) through its lru_cache: a hit returns the cached
\* callable and makes the entry the most recently used, a miss runs the body
\* and stores what it returns.
Wrap(f) ==
    LET hits == Cached(memo.cache, f)
        k == CHOOSE k \in hits : TRUE
        made == Wrapper(f, memo.made + 1)
    IN  /\ f \in app
        /\ IF hits # {}
           THEN memo' = [memo EXCEPT
                            !.cache = Append(Without(@, k), memo.cache[k]),
                            !.returned = @ \cup {memo.cache[k].value},
                            !.last = memo.cache[k].value]
           ELSE /\ memo.made < MaxWraps
                /\ memo' = [memo EXCEPT
                            !.cache = Append(@, [fn |-> f, value |-> made]),
                            !.returned = @ \cup {made},
                            !.made = IF made.kind = "wrapper" THEN @ + 1 ELSE @,
                            !.last = made]
        /\ UNCHANGED <<app, task, shared, declared, verdict, adapter>>

\* Enough other callables went through without_dependencies for the memo to
\* fill up: its least recently used entry is dropped.
Evicted ==
    /\ memo.cache # <<>>
    /\ memo' = [memo EXCEPT !.cache = Tail(@)]
    /\ UNCHANGED <<app, task, shared, declared, verdict, adapter>>

\* Variant: the caller's keywords are left out of the call.
ResolvedOnly(resolved, kwargs) == resolved

\* `all_kwargs = {**resolved, **kwargs}`
Merge(resolved, kwargs) ==
    [name \in (DOMAIN resolved) \cup kwargs |->
        IF name \in kwargs THEN ProvidedValue(name) ELSE resolved[name]]

\* wrapper(**kwargs) is called: resolved_dependencies(function, kwargs) is
\* entered and the resolution runs to its first wait.  The callers are
\* interchangeable, so they make their first calls in turn.
Call(t, w, kwargs) ==
    /\ task[t].pc \in {"idle", "returned"}
    /\ \A u \in Callers : u < t => task[u].pc # "idle"
    /\ w \in memo.returned
    /\ w.kind = "wrapper"
    /\ Apply(t, Run([Within(t, shared.scope) EXCEPT !.task =
                        [IdleTask EXCEPT !.pc = "defaults", !.fn = w.of,
                                         !.provided = kwargs, !.via = w,
                                         !.ctx = shared.scope]]))
    /\ UNCHANGED <<app, outside>>

\* `function(**all_kwargs)`: the original callable starts.
CallOriginal(t) ==
    /\ task[t].pc = "yielded"
    /\ task' = [task EXCEPT ![t].pc = "running",
                            ![t].passed = Merge(task[t].arguments, task[t].provided),
                            ![t].held = task[t].stack]
    /\ UNCHANGED <<app, shared, outside>>

\* The original callable returns its result or raises.
OriginalReturns(t, e) ==
    /\ task[t].pc = "running"
    /\ task' = [task EXCEPT ![t].pc = "unwinding", ![t].exc = e,
                            ![t].result = IF e = NoError
                                          THEN Result(task[t].fn, task[t].passed)
                                          ELSE NoResult]
    /\ UNCHANGED <<app, shared, outside>>

\* Variant: the wrapper hands the result over without waiting for the exit of
\* the `async with` block.
LeftEarly(tk) == tk.pc = "unwinding"

\* The `async with resolved_dependencies(...)` block of the wrapper has been
\* left: its exit stack is unwound.
Left(tk) == tk.pc = "unwinding" /\ tk.stack = <<>>

\* The wrapper returns to its caller (or the error reaches the caller).
WrapperReturns(t) ==
    /\ Left(task[t])
    /\ task' = [task EXCEPT ![t].pc = "returned", ![t].returned = task[t].result]
    /\ UNCHANGED <<app, shared, outside>>

InitBridge ==
    /\ app \in BridgeApplications
    /\ task = [t \in Tasks |-> IdleTask]
    /\ shared = UnopenedShared
    /\ NotValidated
    /\ memo = EmptyMemo
    /\ adapter = Unadapted

NextBridge ==
    \/ \E f \in app : Wrap(f)
    \/ Evicted
    \/ \E t \in Callers :
        \/ \E w \in memo.returned : \E kwargs \in Overrides(w.of) : Call(t, w, kwargs)
        \/ CallOriginal(t)
        \/ \E e \in {NoError, BodyError} : OriginalReturns(t, e)
        \/ Unwind(t)
        \/ WrapperReturns(t)

SpecBridge == InitBridge /\ [][NextBridge]_vars

\* ------------------------------------------------------------- properties
\* The shared scope of the task: the cache, the lock and the stack that the
\* ContextVars hold in the context the task runs in.
Scope(t) == Seen(task[t].ctx)

Reverse(seq) == [k \in 1..Len(seq) |-> seq[Len(seq) + 1 - k]]
Count(seq, e) == Cardinality({k \in DOMAIN seq : seq[k] = e})

\* The invocations of producer p made for task t's resolution-scope cache.
ScopedCalls(t, p) ==
    {k \in DOMAIN task[t].calls :
        task[t].calls[k].factory = p /\ task[t].calls[k].via = "depends"}

\* The invocations of producer p made for the shared scope's cache.
SharedCalls(p) == {k \in DOMAIN shared.calls : shared.calls[k].factory = p}

\* The values task t's scope handed out for Depends(p).
ScopedValues(t, p) == {x[2] : x \in {y \in task[t].delivered : y[1] = p}}

\* The values the shared scope handed out for Shared(p).
SharedValues(p) == {x[2] : x \in {y \in shared.delivered : y[1] = p}}

DefaultNames(f) == {q.param : q \in Range(DependencyParameters(f))}

\* The resolution scope of task t has ended: its release stack is unwound.
ScopeEnded(t) == task[t].pc = "unwinding" /\ task[t].stack = <<>>

\* C1: within one resolution scope a producer that succeeds is invoked exactly
\* once however many scoped descriptors wrap it (on the callable or nested
\* in its dependency graph), and every parameter that requested it holds the
\* one value that invocation made.
C1_DedupWithinScope ==
    \A t \in Tasks : \A p \in Producers :
        /\ ~FactoryRaises(p) => Cardinality(ScopedCalls(t, p)) <= 1
        /\ ScopedValues(t, p) # {} =>
            /\ Cardinality(ScopedCalls(t, p)) = 1
            /\ ScopedValues(t, p) =
                    {Value(p, task[t].calls[k].id) : k \in ScopedCalls(t, p)}
        /\ \A q \in Range(DependencyParameters(task[t].fn)) :
            (/\ q.dep = Depends(p)
             /\ q.param \in DOMAIN task[t].arguments
             /\ task[t].arguments[q.param].kind = "value")
                => ScopedValues(t, p) = {task[t].arguments[q.param]}

\* Two parameters of f_dedup wrap `base`, which `derived` requests too: the
\* map is yielded with both holding the value of the single invocation.
C1_Witness ==
    \E t \in Tasks :
        /\ task[t].pc = "yielded" /\ task[t].fn = "f_dedup" /\ task[t].provided = {}
        /\ task[t].arguments["a"] = task[t].arguments["b"]
        /\ task[t].arguments["a"].kind = "value"
        /\ task[t].arguments["v"].kind = "value"
        /\ Cardinality(ScopedCalls(t, "base")) = 1

\* C2 (as claimed): every producer, raising ones included, is invoked at most
\* once per resolution scope and at most once in the life of a shared scope.
C2_AtMostOncePerScope ==
    /\ \A t \in Tasks : \A p \in Producers : Cardinality(ScopedCalls(t, p)) <= 1
    /\ \A p \in Producers : Cardinality(SharedCalls(p)) <= 1

\* C3: in one shared scope the resolutions that obtain a shared producer's
\* value, one after the other or interleaved, all obtain the value of one and
\* the same invocation, and the producer was invoked exactly once.
C3_SharedExactlyOnce ==
    \A p \in Producers :
        /\ ~FactoryRaises(p) => Cardinality(SharedCalls(p)) <= 1
        /\ SharedValues(p) # {} =>
            /\ Cardinality(SharedCalls(p)) = 1
            /\ SharedValues(p) = {Value(p, shared.calls[k].id) : k \in SharedCalls(p)}
        /\ \A t \in Tasks : \A q \in Range(DependencyParameters(task[t].fn)) :
            (/\ q.dep = Shared(p)
             /\ q.param \in DOMAIN task[t].arguments
             /\ task[t].arguments[q.param].kind = "value")
                => SharedValues(p) = {task[t].arguments[q.param]}

\* Two resolutions of different callables hold the map at the same time, both
\* with the one value of resource_a.
C3_Witness ==
    \E t1, t2 \in Tasks :
        /\ t1 # t2
        /\ task[t1].pc = "yielded" /\ task[t1].fn = "f_a" /\ task[t1].provided = {}
        /\ task[t2].pc = "yielded" /\ task[t2].fn = "f_pool"
        /\ task[t2].provided = {}
        /\ task[t1].arguments["v"].kind = "value"
        /\ task[t2].arguments["p"].kind = "value"
        /\ Cardinality(SharedCalls("resource_a")) = 1
        /\ shared.calls[1].by = t2

\* The resources task t's scope acquired for scoped producers: one per
\* invocation of a context-manager producer that did not raise and is no
\* longer awaited.
ScopedResources(t) ==
    {ResourceEntry(task[t].calls[k].factory, task[t].calls[k].id) :
        k \in {j \in DOMAIN task[t].calls :
                /\ task[t].calls[j].via = "depends"
                /\ RegistersRelease(FactoryShape(task[t].calls[j].factory))
                /\ ~FactoryRaises(task[t].calls[j].factory)
                /\ \A x \in Range(task[t].frames) :
                        x.kind = "depends" => x.id # task[t].calls[j].id
                                                \/ x.factory # task[t].calls[j].factory}}

\* C4: nothing a resolution scope acquired is released before the scope ends,
\* and once it has ended (normally, by an error in the caller's body or by a
\* tag-bound failure) every resource entered into its release stack, those of
\* the sub-dependencies of a failed dependency included, was released exactly
\* once.
C4_ReleasedExactlyOnceAtExit ==
    \A t \in Tasks :
        /\ task[t].pc \in {"defaults", "annotations", "yielded"} =>
            /\ task[t].released = <<>>
            /\ \A e \in ScopedResources(t) : Count(task[t].stack, e) = 1
        /\ Len(task[t].released) + Len(task[t].stack) = Len(task[t].acquired)
        /\ \A e \in Range(task[t].acquired) :
            Count(task[t].released, e) + Count(task[t].stack, e) = 1
        /\ ScopeEnded(t) =>
            \A e \in ScopedResources(t) \cup Range(task[t].acquired) :
                Count(task[t].released, e) = 1

\* f_fail has ended: `boom` failed for x after its sub-dependency `resource`
\* was entered, and that resource has been released.
C4_Witness ==
    \E t \in Tasks :
        /\ ScopeEnded(t) /\ task[t].fn = "f_fail"
        /\ "x" \in DOMAIN task[t].arguments
        /\ task[t].arguments["x"].kind = "failed"
        /\ task[t].released = <<ResourceEntry("resource", Id(t, 1))>>

\* The release stack of SharedContext s, active, kept by a token or left
\* behind, and the entries of a sequence that belong to s.
StackOf(s) == Seen(s).stack

OfScope(entries, s) ==
    SelectSeq(entries, LAMBDA e : shared.within[e.id.n] = s)

\* C5: in every scope, resolution or shared, what has been released so far is
\* the reverse of the latest acquisitions: releases run in the exact reverse
\* order of acquisition, whatever the outcome.
C5_ReverseOrder ==
    /\ \A t \in Tasks :
        task[t].released \o Reverse(task[t].stack) = Reverse(task[t].acquired)
    /\ \A s \in 1..shared.opened :
        OfScope(shared.released, s) \o Reverse(StackOf(s))
            = Reverse(OfScope(shared.acquired, s))

\* A scope that ends with an error has released two resources, the later
\* acquired first.
C5_Witness ==
    \E t \in Tasks :
        /\ ScopeEnded(t) /\ task[t].exc # NoError
        /\ Len(task[t].released) >= 2
        /\ task[t].released[1] = task[t].acquired[Len(task[t].acquired)]

\* The context managers of the shared producers, in the order the producers
\* were invoked.
RECURSIVE SharedResources(_)
SharedResources(calls) ==
    IF calls = <<>> THEN <<>>
    ELSE LET c == calls[Len(calls)]
             rest == SharedResources(SubSeq(calls, 1, Len(calls) - 1))
         IN  IF RegistersRelease(FactoryShape(c.factory)) /\ ~FactoryRaises(c.factory)
             THEN Append(rest, ResourceEntry(c.factory, c.id))
             ELSE rest

\* The invocations of shared producers that have returned.
Returned(calls) ==
    SelectSeq(calls, LAMBDA c :
        \A t \in Tasks : \A i \in DOMAIN task[t].frames : task[t].frames[i].id # c.id)

\* C6: the shared resources, whichever resolutions first acquired them, are
\* released when the shared scope closes and not while it is open, in the
\* reverse order of their first acquisition.
C6_SharedTeardownOrder ==
    /\ shared.state \in {"unopened", "open"} => shared.released = <<>>
    /\ shared.state = "closed" =>
            shared.released = Reverse(SharedResources(Returned(shared.calls)))

\* resource_a was acquired in one resolution, resource_b in another, and the
\* closed scope released b, then a.
C6_Witness ==
    /\ shared.state = "closed"
    /\ Len(shared.calls) = 2
    /\ shared.calls[1].factory = "resource_a"
    /\ shared.calls[2].factory = "resource_b"
    /\ shared.calls[1].by # shared.calls[2].by
    /\ shared.released = <<ResourceEntry("resource_b", Id(SharedScope, 2)),
                           ResourceEntry("resource_a", Id(SharedScope, 1))>>

\* C7: the resource of a shared producer is never on a resolution scope's
\* release stack and never released by one; it stays acquired while the shared
\* scope is open and is released exactly once when the scope has closed.
C7_SharedResourceOutlivesResolution ==
    \A k \in DOMAIN shared.calls :
        LET c == shared.calls[k]
            e == ResourceEntry(c.factory, c.id)
            held == StackOf(shared.within[k])
            made == \A t \in Tasks : \A i \in DOMAIN task[t].frames :
                        task[t].frames[i].id # c.id
        IN  (RegistersRelease(FactoryShape(c.factory)) /\ ~FactoryRaises(c.factory)
             /\ made) =>
                /\ \A t \in Tasks :
                    Count(task[t].stack, e) = 0 /\ Count(task[t].released, e) = 0
                /\ shared.state = "open" =>
                    Count(held, e) = 1 /\ Count(shared.released, e) = 0
                /\ Count(held, e) + Count(shared.released, e) = 1
                /\ shared.state = "closed" => Count(shared.released, e) = 1

\* The resolution that first acquired resource_a is over, the shared scope is
\* still open, and another resolution holds the resource's value.
C7_Witness ==
    \E t1, t2 \in Tasks :
        /\ shared.state = "open"
        /\ Len(shared.calls) >= 1
        /\ shared.calls[1].factory = "resource_a"
        /\ shared.calls[1].by = t1
        /\ task[t1].pc = "done"
        /\ task[t2].pc = "yielded" /\ task[t2].fn = "f_a"
        /\ task[t2].arguments["v"] = Value("resource_a", Id(SharedScope, 1))
        /\ Count(shared.stack, ResourceEntry("resource_a", Id(SharedScope, 1))) = 1

\* C8: an error raised while a default parameter's descriptor is acquired
\* never ends the resolution; the parameter holds a Failure Marker with its
\* own name and that error, and the parameters that met no error hold the
\* value of their producer.
C8_FailureCaptured ==
    \A t \in Tasks :
        LET tk == task[t]
        IN  /\ (tk.pc = "unwinding" /\ ~tk.yielded) => tk.exc.by \in CustomClasses
            /\ \A k \in DOMAIN tk.calls :
                (FactoryRaises(tk.calls[k].factory)
                 /\ tk.calls[k].param \in DOMAIN tk.arguments) =>
                    tk.arguments[tk.calls[k].param] =
                        FailedDependency(tk.calls[k].param,
                                         Error(tk.calls[k].factory, tk.calls[k].id))
            /\ tk.pc = "yielded" =>
                \A q \in Range(DependencyParameters(tk.fn)) :
                    /\ q.param \in DOMAIN tk.arguments
                    /\ q.param \notin tk.provided =>
                        \/ /\ tk.arguments[q.param].kind = "value"
                           /\ tk.arguments[q.param].src = q.dep.name
                        \/ /\ tk.arguments[q.param].kind = "failed"
                           /\ tk.arguments[q.param].src = q.param
                           /\ \/ tk.arguments[q.param].err = "LookupError"
                              \/ \E k \in DOMAIN tk.calls :
                                    /\ FactoryRaises(tk.calls[k].factory)
                                    /\ tk.calls[k].param = q.param
                                    /\ tk.calls[k].factory = tk.arguments[q.param].err
                                    /\ tk.calls[k].id = tk.arguments[q.param].id

\* f_fail yields its map: x and y hold markers for the two failures of `boom`,
\* z holds the value of `resource`.
C8_Witness ==
    \E t \in Tasks :
        /\ task[t].pc = "yielded" /\ task[t].fn = "f_fail" /\ task[t].provided = {}
        /\ task[t].arguments["x"] = FailedDependency("x", Error("boom", Id(t, 1)))
        /\ task[t].arguments["y"] = FailedDependency("y", Error("boom", Id(t, 2)))
        /\ task[t].arguments["z"] = Value("resource", Id(t, 1))

\* A tag-bound descriptor of task t raised, in bind_to_parameter or in
\* __aenter__.
TagFailed(t) ==
    \E k \in DOMAIN task[t].bindings :
        \/ EnterRaises(task[t].bindings[k].class)
        \/ BindRaises(task[t].bindings[k].class, task[t].bindings[k].value)

\* C9: once a tag-bound descriptor has raised, the resolution is ending with
\* that error: its map was never yielded, no Failure Marker stands for the
\* error, and what the scope had acquired, scoped and tag-bound, is released
\* in reverse order.
C9_TagFailurePropagates ==
    \A t \in Tasks :
        TagFailed(t) =>
            LET tk == task[t]
                b == tk.bindings[Len(tk.bindings)]
            IN  /\ tk.pc = "unwinding"
                /\ ~tk.yielded
                /\ tk.exc.by = b.class
                /\ \A name \in DOMAIN tk.arguments :
                        tk.arguments[name].err \notin CustomClasses
                /\ tk.released \o Reverse(tk.stack) = Reverse(tk.acquired)
                /\ \A e \in ScopedResources(t) :
                        Count(tk.released, e) + Count(tk.stack, e) = 1
                /\ \A k \in 1..(Len(tk.bindings) - 1) :
                        HasExit(tk.bindings[k].class) =>
                            Count(tk.released, ExitEntry([name |-> tk.bindings[k].class,
                                                         inst |-> tk.bindings[k].inst]))
                            + Count(tk.stack, ExitEntry([name |-> tk.bindings[k].class,
                                                        inst |-> tk.bindings[k].inst])) = 1

\* f_explode ended by Exploding.__aenter__: the Tracker copy entered before it
\* and the scoped resource were released, the Tracker first.
C9_Witness ==
    \E t \in Tasks :
        /\ ScopeEnded(t) /\ task[t].fn = "f_explode"
        /\ task[t].exc.by = "Exploding"
        /\ ~task[t].yielded
        /\ task[t].released =
                <<[kind |-> "dep", src |-> "Tracker", id |-> Id(t, 1)],
                  ResourceEntry("resource", Id(t, 1))>>

\* C10: a default parameter the caller supplied is never acquired and no
\* producer is invoked for it; the map holds the caller's value for it, and
\* the parameters not supplied are acquired as usual.
C10_OverrideShortCircuits ==
    \A t \in Tasks :
        LET tk == task[t]
        IN  /\ \A name \in tk.provided \cap DefaultNames(tk.fn) :
                /\ name \notin tk.attempted
                /\ \A k \in DOMAIN tk.calls : tk.calls[k].param # name
                /\ name \in DOMAIN tk.arguments =>
                        tk.arguments[name] = ProvidedValue(name)
            /\ tk.pc = "yielded" =>
                /\ DOMAIN tk.arguments = DefaultNames(tk.fn)
                /\ \A name \in DefaultNames(tk.fn) \ tk.provided :
                    /\ name \in tk.attempted
                    /\ tk.arguments[name].kind \in {"value", "failed"}

\* f_dedup is resolved with a value supplied for a: a holds it, `base` was
\* invoked for v, and b holds the cached value.
C10_Witness ==
    \E t \in Tasks :
        /\ task[t].pc = "yielded" /\ task[t].fn = "f_dedup"
        /\ task[t].provided = {"a"}
        /\ task[t].arguments["a"] = ProvidedValue("a")
        /\ task[t].arguments["b"] = Value("base", Id(t, 1))
        /\ task[t].calls[1].param = "v"

\* C11: a tag-bound descriptor is bound and acquired only after the defaults
\* loop of its call is over (every scoped dependency resolved or failed, none
\* in progress), and the value it is bound to is the parameter's final value:
\* the caller's override when there is one, else the resolved value, else
\* nothing.
C11_TagsAfterDefaults ==
    \A t \in Tasks :
        LET tk == task[t]
        IN  \A k \in DOMAIN tk.bindings :
                /\ tk.pc \in {"annotations", "yielded", "unwinding"}
                /\ tk.i > Len(DependencyParameters(tk.fn))
                /\ DefaultNames(tk.fn) \subseteq DOMAIN tk.arguments
                /\ tk.frames = <<>>
                /\ tk.bindings[k].value =
                        IF tk.bindings[k].param \in tk.provided
                        THEN ProvidedValue(tk.bindings[k].param)
                        ELSE IF tk.bindings[k].param \in DefaultNames(tk.fn)
                        THEN tk.arguments[tk.bindings[k].param]
                        ELSE None

\* f_tags is resolved with an override for x: both descriptors on x were bound
\* to the caller's value and `base` was never invoked.
C11_Witness ==
    \E t \in Tasks :
        /\ task[t].pc = "yielded" /\ task[t].fn = "f_tags"
        /\ task[t].provided = {"x"}
        /\ Len(task[t].bindings) = 2
        /\ task[t].bindings[1].value = ProvidedValue("x")
        /\ task[t].bindings[2].value = ProvidedValue("x")
        /\ task[t].calls = <<>>

\* C12: while no shared scope is open (none was opened, or it has closed) the
\* acquisition of a shared descriptor fails with LookupError: no producer is
\* invoked through it, no value comes back, and no cache entry, lock holder or
\* release-stack entry appears.
C12_NoScopeFailsFast ==
    /\ [](shared.state = "unopened" => shared = UnopenedShared)
    /\ [](shared.state = "closed" =>
            shared.lock = 0 /\ shared.stack = <<>> /\ shared.resolved = EmptyDict)
    /\ [][shared.state \in {"unopened", "closed"} =>
            /\ shared'.calls = shared.calls
            /\ \A t \in Tasks :
                \A q \in Range(DependencyParameters(task'[t].fn)) :
                    (q.dep.kind = "shared"
                     /\ q.param \in task'[t].attempted
                     /\ q.param \notin task[t].attempted
                     /\ q.param \in DOMAIN task'[t].arguments) =>
                        task'[t].arguments[q.param]
                            = FailedDependency(q.param, LookupError)]_vars

\* After the shared scope has closed, f_a is resolved again: v holds the marker
\* of the LookupError, w its scoped value, and the closed scope is untouched.
C12_Witness ==
    \E t \in Tasks :
        /\ shared.state = "closed"
        /\ Len(shared.calls) = 1
        /\ shared.calls[1].by # t
        /\ task[t].pc = "yielded" /\ task[t].fn = "f_a"
        /\ task[t].arguments["v"] = FailedDependency("v", LookupError)
        /\ task[t].arguments["w"] = Value("resource_a", Id(t, 1))

\* C13: the keys of the Resolved-Arguments Map are never anything but
\* parameters with a dependency default, and the yielded map has exactly those
\* keys: not the parameters that only carry tag-bound descriptors (overridden
\* or not), not the plain ones.
C13_KeySet ==
    \A t \in Tasks :
        /\ DOMAIN task[t].arguments \subseteq DefaultNames(task[t].fn)
        /\ task[t].yielded => DOMAIN task[t].arguments = DefaultNames(task[t].fn)

\* f_watch yields with an override for n, which carries only a Tracker: the
\* Tracker was bound and entered, and the map has the one key x.
C13_Witness ==
    \E t \in Tasks :
        /\ task[t].pc = "yielded" /\ task[t].fn = "f_watch"
        /\ task[t].provided = {"n"}
        /\ Len(task[t].bindings) = 1
        /\ task[t].acquired[Len(task[t].acquired)].src = "Tracker"
        /\ DOMAIN task[t].arguments = {"x"}

\* The types, Dependency aside, that are flagged single and have more than
\* one instance (by is-a) among the callable's defaults and tags together.
Crowded(function) ==
    {c \in DependencyTypes :
        /\ single(c)
        /\ Cardinality({k \in DOMAIN function.defaults :
                            c \in Range(Mro(function.defaults[k]))})
           + Cardinality({<<a, k>> \in (DOMAIN function.annotations) \X (1..(MaxTags + 1)) :
                            /\ k \in DOMAIN function.annotations[a].deps
                            /\ c \in Range(Mro(function.annotations[a].deps[k]))}) > 1}

\* C14: validate_dependencies raises exactly when some single-flagged type
\* other than Dependency has more than one instance, by is-a, among the
\* callable's default dependencies and annotation dependencies taken together.
C14_ValidateIffCrowded ==
    verdict # NoVerdict => (verdict.raised <=> Crowded(declared) # {})

\* A Deadline default and a Timeout tag on a parameter were refused: both are
\* Runtime, and no concrete type occurs twice.
C14_Witness ==
    /\ declared.defaults = <<"Deadline">>
    /\ declared.annotations =
            <<Annotated("x", <<"NotSingle">>), Annotated("y", <<"Timeout">>)>>
    /\ verdict = ValueError("base", "Runtime", <<"Deadline", "Timeout">>)

\* C15: when some single-flagged concrete type occurs twice, the failure names
\* such a type (the first one to occur), whatever conflicts exist on its
\* ancestors; when none does, the failure names a single-flagged ancestor and
\* lists, in order, the concrete type of every instance of that ancestor.
C15_ConcreteBeforeAncestor ==
    LET dependencies == declared.defaults \o annotation_dependencies(declared.annotations)
        twice == {c \in DependencyTypes :
                    single(c) /\ Cardinality({k \in DOMAIN dependencies :
                                                dependencies[k] = c}) > 1}
    IN  verdict.raised =>
            IF twice # {}
            THEN /\ verdict.check = "type"
                 /\ verdict.names \in twice
                 /\ \A c \in twice :
                        \E k \in DOMAIN dependencies :
                            /\ dependencies[k] = verdict.names
                            /\ \A j \in 1..(k - 1) : dependencies[j] # c
            ELSE /\ verdict.check = "base"
                 /\ verdict.names \in Crowded(declared)
                 /\ Len(verdict.found) > 1
                 /\ verdict.found =
                        SelectSeq(dependencies,
                                  LAMBDA d : verdict.names \in Range(Mro(d)))

\* Two Timeout defaults: Runtime, their single ancestor, has two instances as
\* well, and the failure names Timeout.
C15_Witness ==
    /\ declared.defaults = <<"Timeout", "Timeout">>
    /\ declared.annotations = <<>>
    /\ "Runtime" \in Crowded(declared)
    /\ verdict = ValueError("type", "Timeout", <<>>)

\* C16 (as claimed): validate_dependencies refuses a callable with two
\* instances of one single-flagged type among the tags of one parameter, and
\* accepts a callable whose only dependencies are one instance of that type on
\* each of two parameters.
C16_ExclusivePerParameter ==
    verdict # NoVerdict =>
        /\ (\E a \in DOMAIN declared.annotations : \E c \in TagTypes :
                /\ single(c)
                /\ Cardinality({k \in DOMAIN declared.annotations[a].deps :
                                    declared.annotations[a].deps[k] = c}) > 1)
            => verdict.raised
        /\ \A c \in TagTypes :
            (/\ single(c)
             /\ declared.defaults = <<>>
             /\ declared.annotations =
                    <<Annotated("x", <<c>>), Annotated("y", <<c>>)>>)
                => ~verdict.raised

\* C17: without_dependencies(f) returns f itself exactly when f declares no
\* dependency default and no tag-bound descriptor; otherwise it returns a new
\* callable whose visible parameters are those of f without the parameters
\* that have a dependency default, in the same order.  A callable with
\* tag-bound descriptors only is wrapped too, and each call of its wrapper
\* binds and enters every one of its tag-bound descriptors before the
\* original runs.
C17_IdentityOrWrapper ==
    /\ \A w \in memo.returned :
            /\ (w = Function(w.of)) <=>
                    (DependencyParameters(w.of) = <<>>
                        /\ AnnotationDependencies(w.of) = <<>>)
            /\ w # Function(w.of) =>
                    /\ w.kind = "wrapper"
                    /\ w.signature =
                            SelectSeq(Signature(w.of),
                                      LAMBDA name : name \notin DefaultNames(w.of))
    /\ \A t \in Callers :
            task[t].pc = "running" =>
                /\ task[t].via \in memo.returned
                /\ task[t].via.kind = "wrapper"
                /\ \A k \in DOMAIN AnnotationDependencies(task[t].fn) :
                    \A j \in DOMAIN AnnotationDependencies(task[t].fn)[k].deps :
                        \E b \in DOMAIN task[t].bindings :
                            /\ task[t].bindings[b].param =
                                    AnnotationDependencies(task[t].fn)[k].param
                            /\ task[t].bindings[b].class =
                                    AnnotationDependencies(task[t].fn)[k].deps[j].name

\* f_plain came back as itself, f_guard (a tag-bound Tracker and nothing else)
\* came back wrapped with its signature unchanged, and a call of that wrapper
\* has bound the Tracker and is running f_guard.
C17_Witness ==
    /\ Function("f_plain") \in memo.returned
    /\ \E w \in memo.returned : \E t \in Callers :
            /\ w.kind = "wrapper" /\ w.of = "f_guard"
            /\ w.signature = <<"n">>
            /\ task[t].pc = "running" /\ task[t].via = w
            /\ Len(task[t].bindings) = 1
            /\ task[t].bindings[1].class = "Tracker"

\* The wrapper of task t has called the original callable.
OriginalCalled(t) ==
    task[t].yielded /\ task[t].pc \in {"running", "unwinding", "returned"}

\* C18: the wrapper calls the original with the resolved values overlaid with
\* the caller's keywords: every keyword of the caller arrives with the caller's
\* value, every other dependency default with its resolved value, and nothing
\* else is passed.  The descriptor of a dependency default the caller supplied
\* is not acquired.
C18_CallerWins ==
    \A t \in Callers :
        OriginalCalled(t) =>
            LET tk == task[t]
            IN  /\ DOMAIN tk.passed = DefaultNames(tk.fn) \cup tk.provided
                /\ \A name \in tk.provided : tk.passed[name] = ProvidedValue(name)
                /\ \A name \in DefaultNames(tk.fn) \ tk.provided :
                        tk.passed[name] = tk.arguments[name]
                /\ tk.attempted \cap tk.provided = {}
                /\ \A q \in Range(DependencyParameters(tk.fn)) :
                        (/\ q.param \in tk.provided
                         /\ \A o \in Range(DependencyParameters(tk.fn)) :
                                o.dep.name = q.dep.name => o.param \in tk.provided)
                            => \A c \in Range(tk.calls) : c.factory # q.dep.name
                /\ tk.result \in {NoResult, Result(tk.fn, tk.passed)}

\* The wrapper of f_watch was called with x: f_watch runs with the caller's x
\* and `base` was never invoked.
C18_Witness ==
    \E t \in Callers :
        /\ task[t].pc = "running" /\ task[t].fn = "f_watch"
        /\ task[t].provided = {"x"}
        /\ task[t].passed["x"] = ProvidedValue("x")
        /\ task[t].calls = <<>>

\* C19: a call of a wrapper starts from an empty scope, resolves, and runs the
\* original while everything the scope acquired is still on its release stack;
\* the stack is then unwound, in reverse order, and only when it is empty does
\* the caller get the original's result.
C19_ReturnAfterUnwind ==
    \A t \in Callers :
        LET tk == task[t]
        IN  /\ tk.pc = "running" =>
                    /\ tk.yielded
                    /\ tk.released = <<>>
                    /\ tk.stack = tk.held
                    /\ ScopedResources(t) \subseteq Range(tk.stack)
                    /\ \A p \in DOMAIN tk.cache :
                            \E c \in Range(tk.calls) : c.factory = p
                    /\ tk.result = NoResult
            /\ (tk.pc = "unwinding" /\ tk.yielded) =>
                    tk.stack \o Reverse(tk.released) = tk.held
            /\ tk.pc # "returned" => tk.returned = NoResult
            /\ tk.returned # NoResult =>
                    /\ tk.yielded
                    /\ tk.returned = Result(tk.fn, tk.passed)
                    /\ tk.stack = <<>>
                    /\ tk.released = Reverse(tk.held)

\* The wrapper of f_watch has returned f_watch's result: the original ran with
\* the context manager of `base` and the Tracker both held, and both were
\* released before the result came back.
C19_Witness ==
    \E t \in Callers :
        /\ task[t].pc = "returned" /\ task[t].fn = "f_watch"
        /\ task[t].returned = Result("f_watch", task[t].passed)
        /\ Len(task[t].held) = 2
        /\ task[t].stack = <<>>
        /\ task[t].released = Reverse(task[t].held)

\* The producers a set of producers reaches through their own dependencies.
RECURSIVE Reach(_)
Reach(S) ==
    LET N == S \cup {q.dep.name : q \in UNION {Range(FactoryParameters(p)) : p \in S}}
    IN  IF N = S THEN S ELSE Reach(N)

\* One resolution's worth of producers: those of the dependency defaults the
\* caller did not supply, and the ones they depend on.
Worth(f, kwargs) ==
    Reach({q.dep.name : q \in {o \in Range(DependencyParameters(f)) :
                                    o.param \notin kwargs}})

\* C20: while the memo holds an entry for f, without_dependencies(f) returns
\* the callable of that entry, and the memo never holds two entries for f.
\* The wrappers made for f, before and after an eviction, differ in identity
\* only: each call of any of them invokes every producer of one resolution of
\* f once, no other producer, and passes the same names to f.
C20_Idempotent ==
    /\ \A k \in DOMAIN memo.cache :
            /\ memo.cache[k].value.of = memo.cache[k].fn
            /\ memo.cache[k].value \in memo.returned
            /\ memo.last.of = memo.cache[k].fn => memo.last = memo.cache[k].value
            /\ \A j \in DOMAIN memo.cache :
                    memo.cache[j].fn = memo.cache[k].fn => j = k
    /\ \A v \in memo.returned : \A w \in memo.returned :
            v.of = w.of => v.kind = w.kind /\ v.signature = w.signature
    /\ \A t \in Callers :
            OriginalCalled(t) =>
                /\ {c.factory : c \in Range(task[t].calls)} =
                        Worth(task[t].fn, task[t].provided)
                /\ \A p \in Producers : Cardinality(ScopedCalls(t, p)) <= 1
                /\ Len(task[t].bindings) =
                        Cardinality(UNION {
                            {<<k, j>> : j \in DOMAIN AnnotationDependencies(task[t].fn)[k].deps} :
                            k \in DOMAIN AnnotationDependencies(task[t].fn)})
    /\ \A t \in Callers : \A u \in Callers :
            (/\ OriginalCalled(t) /\ OriginalCalled(u)
             /\ task[t].fn = task[u].fn /\ task[t].provided = task[u].provided)
                => /\ DOMAIN task[t].passed = DOMAIN task[u].passed
                   /\ Len(task[t].calls) = Len(task[u].calls)
                   /\ \A k \in DOMAIN task[t].calls :
                        task[t].calls[k].factory = task[u].calls[k].factory
                   /\ Len(task[t].held) = Len(task[u].held)

\* f_watch was bridged, its entry evicted, and f_watch bridged again: the memo
\* holds the second wrapper, which is what the last call returned, and a call
\* of the first wrapper has run f_watch after invoking `base` once.
C20_Witness ==
    \E v \in memo.returned : \E w \in memo.returned : \E t \in Callers :
        /\ v.of = "f_watch" /\ w.of = "f_watch" /\ v.n = 1 /\ w.n = 2
        /\ memo.cache = <<[fn |-> "f_watch", value |-> w]>>
        /\ memo.last = w
        /\ task[t].pc = "returned" /\ task[t].via = v
        /\ task[t].provided = {}
        /\ Len(task[t].calls) = 1 /\ task[t].calls[1].factory = "base"
        /\ task[t].returned = Result("f_watch", task[t].passed)

\* The invocation that made value v happened before the k-th invocation of
\* task t: earlier in the task's own calls for a scoped producer, earlier in
\* the shared scope's calls (or by another route, for a call-scoped consumer)
\* for a shared one.
MadeBefore(t, k, dep, v) ==
    LET c == task[t].calls[k]
    IN  IF dep.kind = "depends"
        THEN \E i \in 1..(k - 1) :
                /\ task[t].calls[i].factory = dep.name
                /\ task[t].calls[i].via = "depends"
                /\ task[t].calls[i].id = v.id
        ELSE \E i \in DOMAIN shared.calls :
                /\ shared.calls[i].factory = dep.name
                /\ shared.calls[i].id = v.id
                /\ \A j \in DOMAIN shared.calls :
                        shared.calls[j].id = c.id /\ c.via = "shared" => i < j

\* C21: a producer is invoked with one keyword argument for each of its own
\* dependencies, in declaration order, each holding the value an earlier
\* invocation of that dependency's producer made: nothing is invoked before
\* its dependencies are resolved.
C21_ParametersFirst ==
    \A t \in Tasks : \A k \in DOMAIN task[t].calls :
        LET c == task[t].calls[k]
            params == FactoryParameters(c.factory)
        IN  /\ Len(c.args) = Len(params)
            /\ \A j \in DOMAIN params :
                    /\ c.args[j][1] = params[j].param
                    /\ c.args[j][2] = Value(params[j].dep.name, c.args[j][2].id)
                    /\ MadeBefore(t, k, params[j].dep, c.args[j][2])

\* f(v = Depends(derived)), derived(b = Depends(base)): `base` was invoked, then
\* `derived` with b holding base's value, and v holds derived's value.
C21_Witness ==
    \E t \in Tasks :
        /\ task[t].pc = "yielded" /\ task[t].fn = "f_dedup"
        /\ task[t].provided = {"a"}
        /\ Len(task[t].calls) = 2
        /\ task[t].calls[1].factory = "base" /\ task[t].calls[1].args = <<>>
        /\ task[t].calls[2].factory = "derived"
        /\ task[t].calls[2].args = <<<<"b", Value("base", task[t].calls[1].id)>>>>
        /\ task[t].arguments["v"] = Value("derived", task[t].calls[2].id)

\* The scope of task t has resolved its callable's dependencies.
Resolved(t) == task[t].yielded /\ task[t].pc \in {"yielded", "unwinding"}

\* The scopes in progress that request scoped producer p.
Asking(p) == {t \in Tasks : Active(t) /\ p \in Worth(task[t].fn, task[t].provided)}

\* C22: a resolution scope never finds the value another scope cached: each
\* scope that requests a scoped producer (one that returns) invokes it once
\* itself and caches the value of its own invocation, so k scopes, entered one
\* after the other, side by side or one inside the other, make k invocations;
\* the cache is gone when the scope has ended.
C22_FreshPerScope ==
    \A p \in Producers :
        ~FactoryRaises(p) =>
            /\ \A t \in Asking(p) :
                    Resolved(t) =>
                        /\ Cardinality(ScopedCalls(t, p)) = 1
                        /\ p \in DOMAIN task[t].cache
                        /\ task[t].cache[p].id.scope = t
                        /\ \E k \in ScopedCalls(t, p) :
                                task[t].cache[p] = Value(p, task[t].calls[k].id)
            /\ (\A t \in Asking(p) : Resolved(t)) =>
                    Cardinality(UNION {{<<t, k>> : k \in ScopedCalls(t, p)} :
                                        t \in Tasks}) = Cardinality(Asking(p))
            /\ \A t \in Tasks : ~Active(t) => task[t].cache = EmptyDict

\* Two scopes of f_dedup, the second entered inside the body of the first:
\* each has invoked `base` once and holds a value of its own.
C22_Witness ==
    /\ task[1].pc = "yielded" /\ task[2].pc = "yielded"
    /\ task[1].fn = "f_dedup" /\ task[2].fn = "f_dedup"
    /\ task[2].parent = 1
    /\ Cardinality(ScopedCalls(1, "base")) = 1
    /\ Cardinality(ScopedCalls(2, "base")) = 1
    /\ task[1].arguments["a"].kind = "value"
    /\ task[2].arguments["a"].kind = "value"
    /\ task[1].arguments["a"] # task[2].arguments["a"]

\* The scope of task t is in progress and was entered inside the body of
\* scope o, or has ended there while o's body goes on.
Inside(t, o) == task[t].pc # "idle" /\ task[t].parent = o /\ o # NoParent

\* C23: the values a scope hands out, caches and registers for release are
\* those of its own invocations, in every interleaving of scopes and for a
\* scope entered inside another; and while the inner scope runs and after it
\* has ended, normally or with an error, the outer scope has the cache and the
\* release stack it had when the inner one was entered.
C23_ScopesIsolated ==
    /\ \A t \in Tasks :
            /\ \A p \in DOMAIN task[t].cache : task[t].cache[p].id.scope = t
            /\ \A x \in task[t].delivered : x[2].id.scope = t
            /\ \A name \in DOMAIN task[t].arguments :
                    task[t].arguments[name].kind = "value" =>
                        task[t].arguments[name].id.scope = t
            /\ \A k \in DOMAIN task[t].stack : task[t].stack[k].id.scope = t
            /\ \A k \in DOMAIN task[t].calls :
                    \A j \in DOMAIN task[t].calls[k].args :
                        task[t].calls[k].args[j][2].id.scope = t
    /\ \A t \in Tasks : \A o \in Tasks :
            (Inside(t, o) /\ task[o].pc = "yielded") =>
                /\ task[o].cache = task[t].token.cache
                /\ task[o].stack = task[t].token.stack
                /\ task[o].released = <<>>
    /\ \A t \in Tasks : \A o \in Tasks :
            (Inside(t, o) /\ Active(t)) => task[o].pc = "yielded"

\* A scope was entered inside the body of a scope of f_dedup and has ended;
\* the outer scope, still in its body, has the two cache entries and the one
\* registered release it had when the inner scope was entered.
C23_Witness ==
    /\ task[1].pc = "yielded" /\ task[1].fn = "f_dedup"
    /\ task[1].provided = {}
    /\ DOMAIN task[1].cache = {"base", "derived"}
    /\ Len(task[1].stack) = 1
    /\ task[2].pc = "done" /\ task[2].parent = 1
    /\ task[2].token = Token(task[1].cache, task[1].stack)

\* C24: a resolution cancelled while it waits ends with the cancellation: no
\* Failure Marker stands for it, its map is never yielded, nothing of it is
\* left in progress or holding the shared lock, and what the scope had entered
\* into its release stack is released in reverse order by the stack's exit.
C24_CancellationUnwinds ==
    \A t \in Tasks :
        LET tk == task[t]
        IN  /\ \A name \in DOMAIN tk.arguments : tk.arguments[name].err # "cancel"
            /\ tk.exc = CancelledError =>
                    /\ tk.pc = "unwinding"
                    /\ ~tk.yielded
                    /\ tk.frames = <<>>
                    /\ Scope(t).lock # t
                    /\ tk.released \o Reverse(tk.stack) = Reverse(tk.acquired)

\* f_fail was cancelled while it awaited `boom` for x: `resource`, entered for
\* boom, has been released, and x has no marker.
C24_Witness ==
    \E t \in Tasks :
        /\ ScopeEnded(t) /\ task[t].fn = "f_fail"
        /\ task[t].exc = CancelledError
        /\ task[t].attempted = {"x"}
        /\ task[t].arguments = EmptyDict
        /\ task[t].released = <<ResourceEntry("resource", Id(t, 1))>>

\* C25: only an acquisition that found its shared producer absent from the
\* cache goes on to the lock; one that finds it cached returns the cached
\* value at once, whoever holds the lock, and never queues for it.
C25_CachedPathLockFree ==
    /\ \A t \in Tasks : \A k \in DOMAIN task[t].frames :
            task[t].frames[k].kind = "shared" => ~task[t].frames[k].cached
    /\ \A u \in Tasks : \A k \in DOMAIN Scope(u).waiters :
            LET tk == task[Scope(u).waiters[k]]
            IN  /\ tk.frames # <<>>
                /\ tk.frames[Len(tk.frames)].pc = "lock"
                /\ ~tk.frames[Len(tk.frames)].cached
    /\ \A t \in Tasks : \A h \in task[t].hits :
            /\ h.holder # t
            /\ \E x \in shared.delivered : x[1] = h.factory
            /\ \A k \in DOMAIN task[t].frames :
                    task[t].frames[k].factory # h.factory

\* f_again got `resource_a` for u from the cache while the task resolving f_b
\* held the lock for `resource_b`, which it is still initializing.
C25_Witness ==
    \E t \in Tasks : \E o \in Tasks :
        /\ o # t
        /\ task[t].pc = "yielded" /\ task[t].fn = "f_again"
        /\ [factory |-> "resource_a", holder |-> o] \in task[t].hits
        /\ task[t].arguments["u"] = shared.resolved["resource_a"]
        /\ shared.lock = o
        /\ task[o].frames # <<>>
        /\ task[o].frames[Len(task[o].frames)].factory = "resource_b"
        /\ "resource_b" \notin DOMAIN shared.resolved

\* The position of the first invocation of shared producer p; 0 if none.
FirstCall(p) ==
    IF SharedCalls(p) = {} THEN 0
    ELSE CHOOSE k \in SharedCalls(p) : \A j \in SharedCalls(p) : k <= j

\* Shared producer p was invoked, and before q if q was invoked at all.
InitializedFirst(p, q) ==
    FirstCall(q) # 0 => FirstCall(p) # 0 /\ FirstCall(p) < FirstCall(q)

\* C26 (as claimed): in one shared scope, if the first request for P precedes
\* the first request for Q, P is invoked before Q.
C26_FirstRequestOrder ==
    \A i \in DOMAIN shared.requests : \A j \in DOMAIN shared.requests :
        i < j => InitializedFirst(shared.requests[i], shared.requests[j])

\* C26 (amended): shared producers are initialized in the order in which
\* their acquisitions reach the lock, after their own dependencies have been
\* resolved: a producer is initialized after every shared producer it depends
\* on, although it was requested before them; among producers without
\* dependencies of their own the order of initialization is that of the first
\* requests.
C26_LockOrder ==
    /\ \A i \in DOMAIN shared.requests : \A j \in DOMAIN shared.requests :
            (/\ i < j
             /\ FactoryParameters(shared.requests[i]) = <<>>
             /\ FactoryParameters(shared.requests[j]) = <<>>)
                => InitializedFirst(shared.requests[i], shared.requests[j])
    /\ \A p \in Producers : \A q \in Range(FactoryParameters(p)) :
            q.dep.kind = "shared" => InitializedFirst(q.dep.name, p)

\* f_next asked for `resource_a`, f_b for `resource_b` while the lock was held,
\* then f_next for `base` while f_b was still waiting: they were initialized
\* in that order.
C26_Witness ==
    /\ shared.requests = <<"resource_a", "resource_b", "base">>
    /\ Len(shared.calls) = 3
    /\ shared.calls[1].factory = "resource_a"
    /\ shared.calls[2].factory = "resource_b"
    /\ shared.calls[3].factory = "base"
    /\ shared.calls[1].by = shared.calls[3].by
    /\ shared.calls[2].by # shared.calls[1].by

\* The task is inside the `async with SharedContext.lock.get():` block of the
\* i-th acquisition it has in progress.
HoldsFor(t, i) ==
    /\ task[t].frames[i].kind = "shared"
    /\ task[t].frames[i].pc = "adapt"

WaitsForLock(t) ==
    /\ task[t].frames # <<>>
    /\ task[t].frames[Len(task[t].frames)].pc = "lock"

\* Some task can take a step that brings the lock of the scope nearer to its
\* waiters: the holder's producer is awaited and nothing else, or the lock is
\* free and its first waiter is ready to take it.
LockMoves(sh) ==
    IF sh.lock # 0
    THEN /\ task[sh.lock].frames # <<>>
         /\ HoldsFor(sh.lock, Len(task[sh.lock].frames))
    ELSE /\ sh.waiters # <<>>
         /\ WaitsForLock(Head(sh.waiters))

\* The lock is held only for the innermost acquisition of its holder, whose
\* own dependencies are all resolved by then; the holder never waits for the
\* lock it holds; whenever a task waits for the lock, a step that passes the
\* lock on is possible.
LockDiscipline ==
    \A t \in Tasks :
        /\ \A i \in DOMAIN task[t].frames :
                /\ HoldsFor(t, i) =>
                        /\ i = Len(task[t].frames)
                        /\ Scope(t).lock = t
                        /\ Len(task[t].frames[i].args) =
                                Len(FactoryParameters(task[t].frames[i].factory))
                /\ task[t].frames[i].pc \in {"params", "lock"} =>
                        (Scope(t).lock = t => i < Len(task[t].frames))
        /\ Scope(t).lock = t =>
                /\ task[t].frames # <<>>
                /\ HoldsFor(t, Len(task[t].frames))
        /\ WaitsForLock(t) =>
                /\ Scope(t).lock # t
                /\ Count(Scope(t).waiters, t) = 1
                /\ LockMoves(Scope(t))

Acquiring(t) == task[t].frames # <<>>

\* C27: the lock is never held while the dependencies of the producer it is
\* held for, or of any producer its holder acquires, are being resolved, and
\* no task waits for a lock that cannot move; under fair scheduling every
\* acquisition in progress, of a shared producer that depends on other shared
\* producers included, comes to its end, whatever the interleaving.
C27_UnlockedParameters ==
    /\ []LockDiscipline
    /\ \A t \in Tasks : Acquiring(t) ~> ~Acquiring(t)

\* A task holds the lock for `pool`, whose dependencies (the shared
\* `resource_a` among them) it resolved before, while another task that has
\* resolved them too waits for the lock.
C27_Witness ==
    \E t \in Tasks : \E o \in Tasks :
        /\ shared.lock = t
        /\ Len(task[t].frames) = 1
        /\ task[t].frames[1].factory = "pool"
        /\ Len(task[t].frames[1].args) = 2
        /\ "resource_a" \in DOMAIN shared.resolved
        /\ WaitsForLock(o)
        /\ Len(task[o].frames) = 1
        /\ task[o].frames[1].factory = "pool"

\* The SharedContext inside which the k-th invocation of a shared producer
\* was made, and the invocations of a SharedContext that have returned.
Made(s) ==
    {k \in DOMAIN shared.calls :
        /\ shared.within[k] = s
        /\ ~FactoryRaises(shared.calls[k].factory)
        /\ \A t \in Tasks : \A i \in DOMAIN task[t].frames :
                task[t].frames[i].id # shared.calls[k].id}

RECURSIVE ResourcesOf(_, _)
ResourcesOf(s, n) ==
    IF n = 0 THEN <<>>
    ELSE IF n \in Made(s) /\ RegistersRelease(FactoryShape(shared.calls[n].factory))
    THEN Append(ResourcesOf(s, n - 1),
                ResourceEntry(shared.calls[n].factory, shared.calls[n].id))
    ELSE ResourcesOf(s, n - 1)

\* A cache and a release stack hold what was made in SharedContext s, all of
\* it and nothing else.
Holds(resolved, stack, s) ==
    /\ \A p \in DOMAIN resolved :
            \E k \in Made(s) : /\ shared.calls[k].factory = p
                                /\ resolved[p] = Value(p, shared.calls[k].id)
    /\ \A k \in Made(s) : shared.calls[k].factory \in DOMAIN resolved
    /\ stack = ResourcesOf(s, Len(shared.calls))

\* The SharedContexts whose block is still running.
OpenScopes ==
    {shared.saved[i].scope : i \in DOMAIN shared.saved}
        \cup (IF shared.state = "open" THEN {shared.scope} ELSE {})

\* C28: as long as no release has raised, the active cache and release stack
\* hold what was made in the active SharedContext and nothing of another (so a
\* SharedContext entered inside another starts empty, with a lock that only a
\* resolution begun inside it ever holds, and invokes again a producer the
\* outer one has cached); what the tokens keep of an outer SharedContext is
\* what was made in it, by the resolutions still running in it too, and its
\* lock is held by none but these; a producer is
\* invoked once per SharedContext; only resources of SharedContexts that are
\* being closed have been released, each once, and a SharedContext that has
\* ended has released all of its own but those still on its stack (entered
\* after it was unwound); and when the inner one has ended the outer cache,
\* lock and stack are active again with all they held.
C28_NestedSharedScopes ==
    shared.failed = {} =>
        /\ shared.state = "open" =>
                Holds(shared.resolved, shared.stack, shared.scope)
        /\ \A i \in DOMAIN shared.saved :
                /\ Holds(shared.saved[i].resolved, shared.saved[i].stack,
                         shared.saved[i].scope)
                /\ shared.saved[i].lock # 0 =>
                        task[shared.saved[i].lock].ctx = shared.saved[i].scope
                /\ shared.saved[i].scope < shared.scope
        /\ shared.lock # 0 =>
                /\ task[shared.lock].ctx = shared.scope
                /\ \E k \in DOMAIN shared.calls :
                        /\ shared.within[k] = shared.scope
                        /\ shared.calls[k].by = shared.lock
        /\ \A j \in DOMAIN shared.calls : \A k \in DOMAIN shared.calls :
                (/\ j < k
                 /\ shared.calls[j].factory = shared.calls[k].factory
                 /\ ~FactoryRaises(shared.calls[j].factory))
                    => shared.within[j] # shared.within[k]
        /\ \A j \in DOMAIN shared.released :
                /\ shared.within[shared.released[j].id.n] \notin OpenScopes
                /\ Count(shared.released, shared.released[j]) = 1
        /\ \A s \in shared.ended :
                /\ s \notin OpenScopes
                /\ Range(ResourcesOf(s, Len(shared.calls)))
                        \subseteq Range(shared.released) \cup Range(Seen(s).stack)

\* `resource_b` was invoked in the outer SharedContext and again in the one
\* entered inside it; the inner one has ended and released its own instance,
\* and the outer cache and stack are active with the first instance.
C28_Witness ==
    /\ shared.state = "open"
    /\ shared.scope = 1
    /\ shared.ended = {2}
    /\ Len(shared.calls) = 2
    /\ shared.within = <<1, 2>>
    /\ shared.calls[1].factory = "resource_b"
    /\ shared.calls[2].factory = "resource_b"
    /\ shared.resolved = Put(EmptyDict, "resource_b", Value("resource_b", Id(SharedScope, 1)))
    /\ shared.stack = <<ResourceEntry("resource_b", Id(SharedScope, 1))>>
    /\ shared.released = <<ResourceEntry("resource_b", Id(SharedScope, 2))>>
    /\ shared.lock = 0

\* C29 (as claimed): a SharedContext whose __aexit__ is over, with or without
\* an error of a release, is not the active one any more: the ContextVars hold
\* what they held before it was entered.
C29_CloseRestores ==
    shared.state # "closing" => shared.scope \notin shared.ended

\* C30 (as claimed): the LookupError of a shared descriptor met while no
\* SharedContext is active leaves resolved_dependencies as an error: no map
\* is yielded with its Failure Marker under the parameter.
C30_MisuseReachesCaller ==
    \A t \in Tasks :
        task[t].yielded =>
            \A name \in DOMAIN task[t].arguments :
                task[t].arguments[name] # FailedDependency(name, LookupError)

\* C31 (as claimed): validate_dependencies has one outcome for a declared
\* dependency set, the type its error names included, whatever the order in
\* which its collections are walked, also when several single ancestor types
\* are in conflict.
C31_ValidateDeterministic ==
    verdict # NoVerdict => validate_dependencies(declared) = {verdict}

\* The tag-bound descriptors of a callable with their parameters, in the
\* order the annotations loop meets them.
RECURSIVE Tagged(_)
Tagged(annotated) ==
    IF annotated = <<>> THEN <<>>
    ELSE [j \in DOMAIN annotated[1].deps |->
            [class |-> annotated[1].deps[j].name, param |-> annotated[1].param]]
         \o Tagged(Tail(annotated))

\* C32: the descriptors bound so far are the first tag-bound descriptors of
\* the callable, each bound to its parameter's name and final value (the
\* caller's override, else the value its scoped dependency resolved to, else
\* nothing); what binding returned (a fresh instance, or the descriptor
\* itself) is the object that was acquired, so the declared descriptor is
\* acquired only when binding returned it; and the release registered is that
\* of the acquired object, once, with no release of any other instance.
C32_BoundObjectAcquired ==
    \A t \in Tasks :
        LET tk == task[t]
            tagged == Tagged(AnnotationDependencies(tk.fn))
        IN  /\ Len(tk.bindings) <= Len(tagged)
            /\ \A k \in DOMAIN tk.bindings :
                LET b == tk.bindings[k]
                    exit == ExitEntry([name |-> b.class, inst |-> b.inst])
                IN  /\ b.class = tagged[k].class
                    /\ b.param = tagged[k].param
                    /\ b.value =
                            IF b.param \in tk.provided THEN ProvidedValue(b.param)
                            ELSE IF b.param \in DOMAIN tk.arguments
                            THEN tk.arguments[b.param]
                            ELSE None
                    /\ b.inst # NoId <=> BindFresh(b.class)
                    /\ b.inst # NoId => b.inst.scope = t
                    /\ \A j \in DOMAIN tk.bindings :
                            (j # k /\ b.inst # NoId /\ tk.bindings[j].class = b.class)
                                => tk.bindings[j].inst # b.inst
                    /\ b.entered = IF BindRaises(b.class, b.value) THEN <<>>
                                   ELSE <<b.inst>>
                    /\ (HasExit(b.class) /\ b.entered # <<>> /\ ~EnterRaises(b.class))
                            => Count(tk.stack, exit) + Count(tk.released, exit) = 1
            /\ \A e \in Range(tk.stack) \cup Range(tk.released) :
                    e.kind = "dep" =>
                        \E k \in DOMAIN tk.bindings :
                            /\ tk.bindings[k].class = e.src
                            /\ tk.bindings[k].entered = <<e.id>>
                            /\ tk.bindings[k].inst = e.id

\* f_tags was resolved without override and its scope is unwinding: the
\* Tracker on x was bound to the value `base` gave, its fresh copy was
\* acquired and has been released; ValueCapture returned itself and the
\* declared descriptor was acquired.
C32_Witness ==
    \E t \in Tasks :
        /\ task[t].pc = "unwinding" /\ task[t].fn = "f_tags"
        /\ task[t].provided = {}
        /\ Len(task[t].bindings) = 2
        /\ task[t].bindings[1] =
                [class |-> "Tracker", param |-> "x",
                 value |-> Value("base", Id(t, 1)), inst |-> Id(t, 1),
                 entered |-> <<Id(t, 1)>>]
        /\ task[t].bindings[2] =
                [class |-> "ValueCapture", param |-> "x",
                 value |-> Value("base", Id(t, 1)), inst |-> NoId,
                 entered |-> <<NoId>>]
        /\ ExitEntry([name |-> "Tracker", inst |-> Id(t, 1)]) \in Range(task[t].released)

\* C33: of the raw results adapted so far, each one that is an async context
\* manager was entered into the stack with __aexit__ registered and the value
\* of its __aenter__ returned, whatever else it is (it was not awaited); one
\* that is a sync context manager and no async one was entered with __exit__
\* registered; one that is only awaitable was awaited; any other was returned
\* as it is; and the stack holds a release for the context managers, in the
\* order they were adapted, and for nothing else.
C33_AdapterOrder ==
    /\ \A n \in DOMAIN adapter.values :
        LET raw_value == adapter.pending[n]
            value == adapter.values[n]
        IN  /\ value.of = n
            /\ "acm" \in raw_value => value.from = "__aenter__"
            /\ ("cm" \in raw_value /\ "acm" \notin raw_value)
                    => value.from = "__enter__"
            /\ raw_value = {"awaitable"} => value.from = "await"
            /\ raw_value = {} => value.from = "itself"
            /\ Cardinality({k \in DOMAIN adapter.stack : adapter.stack[k].of = n}) =
                    IF raw_value \cap {"acm", "cm"} # {} THEN 1 ELSE 0
    /\ \A k \in DOMAIN adapter.stack :
            /\ adapter.stack[k].of \in DOMAIN adapter.values
            /\ adapter.stack[k].exit =
                    IF "acm" \in adapter.pending[adapter.stack[k].of]
                    THEN "__aexit__" ELSE "__exit__"
            /\ \A j \in DOMAIN adapter.stack :
                    j < k => adapter.stack[j].of < adapter.stack[k].of

\* A result that is both an async context manager and awaitable was entered,
\* not awaited, and a merely awaitable one after it left the stack alone.
C33_Witness ==
    /\ adapter.pending = <<{"acm", "awaitable"}, {"awaitable"}>>
    /\ adapter.values = <<[from |-> "__aenter__", of |-> 1],
                          [from |-> "await", of |-> 2]>>
    /\ adapter.stack = <<[exit |-> "__aexit__", of |-> 1]>>

\* The invocations of producer p behind a cache: those of the resolution
\* scope of task t, or those of the shared scope.
Invocations(calls, p, via) ==
    {k \in DOMAIN calls : calls[k].factory = p /\ calls[k].via = via}

\* C34: every cache entry stands under the producer that made its value, and
\* that producer was invoked exactly once for it in the scope, also when
\* another producer of the scope returns an equal value; a parameter, of the
\* callable or of a producer, gets the value of the producer it names and of
\* no other; and the parameters that name the same producer get one and the
\* same value.
C34_KeyedByProducer ==
    /\ \A resolved \in {shared.resolved} \cup {Scope(u).resolved : u \in Tasks} :
        \A p \in DOMAIN resolved :
            /\ p \in Producers
            /\ resolved[p].src = p
            /\ \E k \in Invocations(shared.calls, p, "shared") :
                    resolved[p] = Value(p, shared.calls[k].id)
            /\ Cardinality(Invocations(shared.calls, p, "shared")) = 1
    /\ \A t \in Tasks :
        LET tk == task[t]
            params == DependencyParameters(tk.fn)
        IN  /\ \A p \in DOMAIN tk.cache :
                    /\ p \in Producers
                    /\ tk.cache[p].src = p
                    /\ \E k \in Invocations(tk.calls, p, "depends") :
                            tk.cache[p] = Value(p, tk.calls[k].id)
                    /\ Cardinality(Invocations(tk.calls, p, "depends")) = 1
            /\ \A j \in DOMAIN params :
                    (/\ params[j].param \in DOMAIN tk.arguments
                     /\ params[j].param \notin tk.provided
                     /\ tk.arguments[params[j].param].kind = "value")
                        => /\ tk.arguments[params[j].param].src = params[j].dep.name
                           /\ \A i \in DOMAIN params :
                                (/\ params[i].dep = params[j].dep
                                 /\ params[i].param \in DOMAIN tk.arguments
                                 /\ params[i].param \notin tk.provided
                                 /\ tk.arguments[params[i].param].kind = "value")
                                    => tk.arguments[params[i].param] =
                                            tk.arguments[params[j].param]
            /\ \A k \in DOMAIN tk.calls : \A j \in DOMAIN tk.calls[k].args :
                    tk.calls[k].args[j][2].src =
                        FactoryParameters(tk.calls[k].factory)[j].dep.name

\* f_dedup has yielded: `base` and `derived` return equal values and each was
\* invoked once and cached under its own key, while a and b, two descriptors
\* over `base`, hold the one value of its single invocation.
C34_Witness ==
    \E t \in Tasks :
        /\ task[t].pc = "yielded" /\ task[t].fn = "f_dedup"
        /\ task[t].provided = {}
        /\ Output("base") = Output("derived")
        /\ DOMAIN task[t].cache = {"base", "derived"}
        /\ Len(task[t].calls) = 2
        /\ task[t].arguments["a"] = Value("base", Id(t, 1))
        /\ task[t].arguments["b"] = Value("base", Id(t, 1))
        /\ task[t].arguments["v"] = Value("derived", Id(t, 1))

\* The producers that depend on themselves, directly or through others.
RECURSIVE DependsOn(_, _, _)
DependsOn(p, q, n) ==
    /\ n > 0
    /\ \E r \in Range(FactoryParameters(p)) :
            r.dep.kind \in {"depends", "shared"}
                /\ (r.dep.name = q \/ DependsOn(r.dep.name, q, n - 1))

Cyclic == {p \in Producers : DependsOn(p, p, Cardinality(Producers))}

\* The parameters of a callable whose producer is cyclic, or depends on one.
Endless(f) ==
    {q.param : q \in {r \in Range(DependencyParameters(f)) :
        /\ r.dep.kind \in {"depends", "shared"}
        /\ \/ r.dep.name \in Cyclic
           \/ \E c \in Cyclic : DependsOn(r.dep.name, c, Cardinality(Producers))}}

\* C35 (as claimed): a producer that depends on itself is never invoked and
\* its resolution never completes: the call that asked for it gets no further
\* than that parameter.
C35_NeverCompletes ==
    \A t \in Tasks :
        /\ \A k \in DOMAIN task[t].calls : task[t].calls[k].factory \notin Cyclic
        /\ \A name \in Endless(task[t].fn) :
                name \notin task[t].provided =>
                    /\ name \notin DOMAIN task[t].arguments
                    /\ task[t].pc \in {"idle", "defaults"}

\* C35 (amended): there is no cycle guard; a producer that depends on itself,
\* directly or through others, is never invoked and never cached, and its
\* acquisition goes one level deeper with every dependency until the
\* interpreter's recursion limit is hit; the RecursionError raised then is
\* handled like any error of an acquisition: the parameter holds its Failure
\* Marker, the acquisitions in progress are gone, and the call goes on.
C35_RecursionLimit ==
    \A t \in Tasks :
        LET tk == task[t]
        IN  /\ \A k \in DOMAIN tk.calls : tk.calls[k].factory \notin Cyclic
            /\ DOMAIN tk.cache \cap Cyclic = {}
            /\ Len(tk.frames) <= MaxDepth
            /\ \A i \in DOMAIN tk.frames :
                    tk.frames[i].factory \in Cyclic => tk.frames[i].pc = "params"
            /\ \A name \in Endless(tk.fn) :
                    (name \in DOMAIN tk.arguments /\ name \notin tk.provided)
                        => tk.arguments[name] = FailedDependency(name, RecursionError)
            /\ tk.yielded =>
                    Endless(tk.fn) \subseteq DOMAIN tk.arguments

\* f_loop has yielded: p, whose producer `loop` depends on itself, holds the
\* marker of the RecursionError, `loop` was never invoked, and r was resolved
\* after it.
C35_Witness ==
    \E t \in Tasks :
        /\ task[t].pc = "yielded" /\ task[t].fn = "f_loop"
        /\ "loop" \in Cyclic
        /\ task[t].arguments["p"] = FailedDependency("p", RecursionError)
        /\ task[t].arguments["r"] = Value("resource", Id(t, 1))
        /\ Len(task[t].calls) = 1

\* ------------------------------------------------------------- termination
\* The steps the event loop takes on its own, once their awaited result is
\* there: those of a resolution and of its exit, and those of the exit of the
\* SharedContext.  The caller decides when a resolution begins, when its body
\* ends and when the SharedContext is left.
\* Every producer and every release terminates and the event loop runs every
\* task that is ready: the steps of each task, and those of the shared exit,
\* are weakly fair (WF_vars, with ENABLED written out as the guard).
SpecLive ==
    /\ InitFair
    /\ [][Next]_vars
    /\ \A t \in Tasks :
            \/ []<>(~(AdaptReady(t) \/ LockReady(t) \/ task[t].pc = "unwinding"))
            \/ []<><<Adapt(t) \/ AcquireLock(t) \/ Unwind(t) \/ Finish(t)>>_vars
    /\ []<>(shared.state # "closing") \/ []<><<SharedUnwind \/ Closed>>_vars

\* C36: with an acyclic dependency graph whose producers and releases
\* terminate, whatever the interleaving of the concurrent callers inside a
\* shared scope: every resolution that has begun yields its arguments, every
\* exit of a resolution scope that has begun ends, and so does every exit of
\* the shared scope.
C36_Terminates ==
    /\ \A t \in Tasks :
            (task[t].pc \in {"defaults", "annotations"}) ~> (task[t].pc = "yielded")
    /\ \A t \in Tasks : (task[t].pc = "unwinding") ~> (task[t].pc = "done")
    /\ (shared.state = "closing") ~> (shared.state = "closed")

\* Two callers have resolved `pool` inside one shared scope, which invoked
\* `pool` and `resource_a` once each; both resolution scopes have ended and so
\* has the shared scope, which released what it held.
C36_Witness ==
    /\ shared.state = "closed"
    /\ \A t \in Tasks : task[t].pc = "done"
    /\ shared.released # <<>>
    /\ shared.stack = <<>>
    /\ app = {"f_pool"}
    /\ Len(shared.calls) = 2

\* ------------------------------------------------------------- what a shared value is built from
\* The resources a shared producer's invocation was built from: the one its
\* own context manager holds, and those of the values it was called with
\* (each made by a producer resolved as its dependency).
BuiltFrom(call) ==
    (IF RegistersRelease(FactoryShape(call.factory))
     THEN {ResourceEntry(call.factory, call.id)} ELSE {})
    \cup {ResourceEntry(call.args[i][2].src, call.args[i][2].id) :
            i \in {j \in DOMAIN call.args :
                    /\ call.args[j][2].kind = "value"
                    /\ RegistersRelease(FactoryShape(call.args[j][2].src))}}

ReleasedSoFar ==
    Range(shared.released) \cup UNION {Range(task[t].released) : t \in Tasks}

\* C37: while a shared scope is open, none of the resources a cached shared
\* value was built from has been released: neither the shared producer's own
\* nor those acquired by the call-scoped producers resolved as its
\* dependencies.
C37_SourcesHeld ==
    shared.state = "open" =>
        \A k \in DOMAIN shared.calls :
            LET call == shared.calls[k]
            IN  (/\ call.factory \in DOMAIN shared.resolved
                 /\ shared.resolved[call.factory] = Value(call.factory, call.id))
                    => BuiltFrom(call) \cap ReleasedSoFar = {}

\* ------------------------------------------------------------- failure under the lock
\* The task is inside the locked block of a shared producer's acquisition:
\* the producer was invoked and its result is awaited or adapted.
Initializing(t) ==
    /\ Scope(t).lock = t
    /\ task[t].frames # <<>>
    /\ HoldsFor(t, Len(task[t].frames))

\* This step ends the initialization of task t with an error: the producer's
\* own, or the cancellation of the task.
FailsUnderLock(t) ==
    \/ Cancel(t)
    \/ Adapt(t) /\ FactoryRaises(task[t].frames[Len(task[t].frames)].factory)

\* A step that ends an initialization with an error releases the lock (the
\* task holds it next only for another invocation), leaves the cache as it
\* was, without an entry for the producer, and leaves the queue of the lock to
\* those that were waiting.
FailureUnlocks ==
    \A t \in Tasks :
        (Initializing(t) /\ FailsUnderLock(t)) =>
            LET fr == task[t].frames[Len(task[t].frames)]
            IN  /\ Scope(t)'.resolved = Scope(t).resolved
                /\ Key(fr.factory) \notin DOMAIN Scope(t)'.resolved
                /\ \/ Scope(t)'.lock = 0
                   \/ /\ Scope(t)'.lock = t
                      /\ task'[t].frames # <<>>
                      /\ task'[t].frames[Len(task'[t].frames)].id # fr.id
                /\ \A w \in Range(Scope(t).waiters) :
                        w \in Range(Scope(t)'.waiters) /\ task'[w] = task[w]

\* Every failure a resolution holds for a shared producer is that of an
\* invocation the resolution made itself: a request that finds no entry
\* invokes the producer, however many invocations failed before.
InvokedAgain ==
    \A t \in Tasks : \A q \in Range(DependencyParameters(task[t].fn)) :
        (/\ q.dep.kind = "shared"
         /\ q.param \in DOMAIN task[t].arguments
         /\ task[t].arguments[q.param].err = q.dep.name)
            => \E k \in DOMAIN shared.calls :
                    /\ shared.calls[k].by = t
                    /\ shared.calls[k].factory = q.dep.name
                    /\ shared.calls[k].id = task[t].arguments[q.param].id

\* C38: when the invocation or the adaptation of a shared producer raises, or
\* the task is cancelled, inside the locked block, the lock is released and no
\* cache entry is written; those waiting for the lock can go on (the lock is
\* free and its first waiter is ready to take it), and a later request for the
\* producer invokes it again.
C38_FailureUnderLock ==
    /\ [][FailureUnlocks]_vars
    /\ []LockDiscipline
    /\ []InvokedAgain

\* A task was cancelled while it held the lock for `resource_a`; the other
\* task, which asked for it too, invoked the producer again, and its value is
\* the one cached.
C38_Witness ==
    \E t \in Tasks : \E o \in Tasks \ {t} :
        /\ task[t].exc = CancelledError
        /\ Len(shared.calls) = 2
        /\ shared.calls[1].factory = "resource_a" /\ shared.calls[1].by = t
        /\ shared.calls[2].factory = "resource_a" /\ shared.calls[2].by = o
        /\ shared.within[1] = shared.within[2]
        /\ "resource_a" \in DOMAIN shared.resolved
        /\ shared.resolved["resource_a"] = Value("resource_a", shared.calls[2].id)
        /\ shared.lock = 0

\* ------------------------------------------------------------- one initialization at a time
\* The initializations in progress: the acquisitions of shared producers that
\* are between the invocation of the producer and the store into the cache.
InProgress ==
    {ti \in Tasks \X (1..MaxDepth) :
        /\ ti[2] \in DOMAIN task[ti[1]].frames
        /\ HoldsFor(ti[1], ti[2])}

\* C39: within one shared scope at most one initialization of a shared
\* producer (its invocation and the adaptation of its result) is in progress
\* at any time, whatever the interleaving and whether the callers ask for the
\* same producer or for different ones; it is that of the holder of the lock.
C39_OneInitialization ==
    /\ \A ti \in InProgress : \A uj \in InProgress :
            task[ti[1]].ctx = task[uj[1]].ctx => ti = uj
    /\ \A ti \in InProgress : Scope(ti[1]).lock = ti[1]

\* One task is initializing `resource_b` while another, which asked for a
\* different shared producer, waits for the lock.
C39_Witness ==
    \E t \in Tasks : \E o \in Tasks \ {t} :
        /\ <<t, 1>> \in InProgress
        /\ task[t].frames[1].factory = "resource_b"
        /\ WaitsForLock(o)
        /\ task[o].frames[Len(task[o].frames)].factory # "resource_b"
        /\ task[o].ctx = task[t].ctx
        /\ o \in Range(Scope(t).waiters)

\* ------------------------------------------------------------- after a failure
\* The parameters of the resolution that hold a Failure Marker.
Marked(tk) == {name \in DOMAIN tk.arguments : tk.arguments[name].kind = "failed"}

\* The descriptors in the Annotated metadata of a parameter.
TagsOf(f, name) ==
    UNION {Range(a.deps) : a \in {b \in Range(AnnotationDependencies(f)) : b.param = name}}

\* C40: the failure of a call-scoped dependency does not stop the rest of the
\* call: the defaults after it are resolved, every tag-bound descriptor of the
\* parameter is bound, with the Failure Marker as the parameter's value, and
\* acquired, and a bridged callable invokes the original and passes it the
\* Failure Marker.
C40_FailureGoesOn ==
    \A t \in Tasks :
        LET tk == task[t]
        IN  \A name \in Marked(tk) :
                /\ name \notin tk.provided
                /\ \A k \in DOMAIN tk.bindings :
                        tk.bindings[k].param = name =>
                            /\ tk.bindings[k].value = tk.arguments[name]
                            /\ tk.bindings[k].entered = <<tk.bindings[k].inst>>
                /\ tk.pc \in {"yielded", "running"} =>
                        /\ tk.exc = NoError
                        /\ DefaultNames(tk.fn) \subseteq DOMAIN tk.arguments \cup tk.provided
                        /\ \A d \in TagsOf(tk.fn, name) :
                                \E k \in DOMAIN tk.bindings :
                                    /\ tk.bindings[k].class = d.name
                                    /\ tk.bindings[k].param = name
                                    /\ HasExit(d.name) =>
                                            \E e \in Range(tk.acquired) :
                                                /\ e.kind = "dep"
                                                /\ e.src = d.name
                                                /\ e.id = tk.bindings[k].inst
                /\ (tk.via.kind = "wrapper" /\ tk.pc = "running") =>
                        /\ name \in DOMAIN tk.passed
                        /\ tk.passed[name] = tk.arguments[name]
                /\ tk.result # NoResult =>
                        /\ name \in DOMAIN tk.result.args
                        /\ tk.result.args[name] = tk.arguments[name]

\* The wrapper made for f_mark was called: `bad` raised for x, z was resolved
\* after it, Tracker and ValueCapture were bound to x with the marker, and the
\* original has returned after being passed the marker for x.
C40_Witness ==
    \E t \in Tasks :
        /\ task[t].fn = "f_mark" /\ task[t].via.kind = "wrapper"
        /\ task[t].result # NoResult
        /\ "x" \in Marked(task[t])
        /\ task[t].result.args["x"] = FailedDependency("x", Error("bad", Id(t, 1)))
        /\ task[t].result.args["z"] = Value("base", Id(t, 1))
        /\ Len(task[t].bindings) = 2
        /\ \A k \in 1..2 : task[t].bindings[k].value = task[t].result.args["x"]
====
